---- MODULE Spec2Model ----
(***************************************************************************)
(* Model of the resilient multi-endpoint query layer of cognitive-stack    *)
(* (src/providers.py): secret redaction, JSON field extraction, the retry  *)
(* loop of one provider call, and the concurrent council dispatch.         *)
(*                                                                         *)
(* Text is a sequence of one-character strings, so that the regular        *)
(* expressions of the redaction filter can be evaluated character by       *)
(* character.  Durations are counted in half seconds, so that the backoff  *)
(* 2^k + 0.5 s is the integer 2 * 2^k + 1.                                 *)
(***************************************************************************)
EXTENDS Integers, Sequences, FiniteSets, TLC

\* ------------------------------------------------------------------ bounds

\* Largest max_retries a provider is configured with.
MaxRetries == 2
\* Largest number of providers handed to query_council.
MaxClients == 3
\* Largest number of pieces an input text of sanitize_error is built from.
MaxPieces == 4

\* ------------------------------------------------------------------- text

None == << >>
Some(x) == << x >>

RECURSIVE Rep(_, _)
\* The character c repeated n times.
Rep(c, n) == IF n <= 0 THEN << >> ELSE << c >> \o Rep(c, n - 1)

\* The character class [A-Za-z0-9_-] of every pattern.
KeyChars ==
    { "A", "B", "C", "D", "E", "F", "G", "H", "I", "J", "K", "L", "M",
      "N", "O", "P", "Q", "R", "S", "T", "U", "V", "W", "X", "Y", "Z",
      "a", "b", "c", "d", "e", "f", "g", "h", "i", "j", "k", "l", "m",
      "n", "o", "p", "q", "r", "s", "t", "u", "v", "w", "x", "y", "z",
      "0", "1", "2", "3", "4", "5", "6", "7", "8", "9", "_", "-" }

\* Whether text p occurs in text s at position i.
OccursAt(s, i, p) ==
    /\ i >= 1
    /\ i + Len(p) - 1 <= Len(s)
    /\ SubSeq(s, i, i + Len(p) - 1) = p

\* Whether text p is a substring of text s.
Contains(s, p) == \E i \in 1..(Len(s) + 1) : OccursAt(s, i, p)

\* ------------------------------------------------------- secret redaction

Star3 == << "*", "*", "*" >>
Redacted == << "R", "E", "D", "A", "C", "T", "E", "D" >>
Marker == Star3 \o Redacted \o Star3
GoogleMarker ==
    Star3 \o Redacted
          \o << "_", "G", "O", "O", "G", "L", "E", "_", "K", "E", "Y" >>
          \o Star3

PrefKey == << "k", "e", "y", "=" >>
PrefSkProj == << "s", "k", "-", "p", "r", "o", "j", "-" >>
PrefSk == << "s", "k", "-" >>
PrefSkAntApi == << "s", "k", "-", "a", "n", "t", "-", "a", "p", "i" >>
PrefSkAnt == << "s", "k", "-", "a", "n", "t", "-" >>
PrefAIza == << "A", "I", "z", "a", "S", "y" >>
PrefBearer == << "B", "e", "a", "r", "e", "r", " " >>
PrefXApiKey == << "x", "-", "a", "p", "i", "-", "k", "e", "y", ":", " " >>

\* The patterns, in the order the filter applies them: a literal prefix
\* followed by at least `min` characters of the class, and the replacement.
SANITIZE_PATTERNS ==
    << [prefix |-> PrefKey,      min |-> 15, repl |-> PrefKey \o Marker],
       [prefix |-> PrefSkProj,   min |-> 20, repl |-> PrefSkProj \o Marker],
       [prefix |-> PrefSk,       min |-> 20, repl |-> PrefSk \o Marker],
       [prefix |-> PrefSkAntApi, min |-> 20, repl |-> PrefSkAnt \o Marker],
       [prefix |-> PrefAIza,     min |-> 30, repl |-> GoogleMarker],
       [prefix |-> PrefBearer,   min |-> 20, repl |-> PrefBearer \o Marker],
       [prefix |-> PrefXApiKey,  min |-> 20, repl |-> PrefXApiKey \o Marker] >>

RECURSIVE RunLen(_, _)
\* Length of the longest run of class characters of s that starts at i
\* (the greedy match of [A-Za-z0-9_-]* at i).
RunLen(s, i) ==
    IF i > Len(s) \/ s[i] \notin KeyChars THEN 0 ELSE 1 + RunLen(s, i + 1)

\* Length of the match of pattern pat at position i of s, 0 when none.
MatchLen(pat, s, i) ==
    IF OccursAt(s, i, pat.prefix)
       /\ RunLen(s, i + Len(pat.prefix)) >= pat.min
    THEN Len(pat.prefix) + RunLen(s, i + Len(pat.prefix))
    ELSE 0

RECURSIVE PatternSubFrom(_, _, _)
\* pattern.sub(replacement, s) from position i on: leftmost matches, not
\* overlapping, each replaced; every other character is copied.
PatternSubFrom(pat, s, i) ==
    IF i > Len(s) THEN << >>
    ELSE IF MatchLen(pat, s, i) > 0
         THEN pat.repl \o PatternSubFrom(pat, s, i + MatchLen(pat, s, i))
         ELSE << s[i] >> \o PatternSubFrom(pat, s, i + 1)

PatternSub(pat, s) == PatternSubFrom(pat, s, 1)

RECURSIVE SanitizeFrom(_, _)
\* The loop of sanitize_error from pattern number k on.
SanitizeFrom(k, s) ==
    IF k > Len(SANITIZE_PATTERNS) THEN s
    ELSE SanitizeFrom(k + 1, PatternSub(SANITIZE_PATTERNS[k], s))

sanitize_error(error) == SanitizeFrom(1, error)

\* ------------------------------------------------------------ JSON values

\* A decoded JSON value, which is also the Python value the code handles.
\* JNull is Python's None.  Strings are texts; dict keys are plain strings.
JNull == [type |-> "null"]
JStr(t) == [type |-> "str", str |-> t]
JNum(n) == [type |-> "num", num |-> n]
JList(xs) == [type |-> "list", items |-> xs]
JDict(f) == [type |-> "dict", fields |-> f]

\* A key of a _safe_get path: a dict key or a list index.
K(name) == [name |-> name]
I(n) == [index |-> n]
IsName(key) == "name" \in DOMAIN key

\* Python truthiness: `not v` is ~Truthy(v).
Truthy(v) ==
    CASE v.type = "null" -> FALSE
      [] v.type = "str" -> v.str # << >>
      [] v.type = "num" -> v.num # 0
      [] v.type = "list" -> v.items # << >>
      [] v.type = "dict" -> DOMAIN v.fields # {}

\* data.get(key, default) on a dict decoded from JSON: its keys are strings,
\* so an integer key is never present.
DictGet(data, key, default) ==
    IF IsName(key) /\ key.name \in DOMAIN data.fields
    THEN data.fields[key.name]
    ELSE default

RECURSIVE SafeGetFrom(_, _, _, _)
\* The loop of _safe_get from key number k on.
SafeGetFrom(data, keys, k, default) ==
    IF k > Len(keys) THEN data
    ELSE IF data.type # "dict" THEN default
    ELSE IF DictGet(data, keys[k], default) = default THEN default
    ELSE SafeGetFrom(DictGet(data, keys[k], default), keys, k + 1, default)

safe_get(data, keys, default) == SafeGetFrom(data, keys, 1, default)

\* -------------------------------------------------------------- responses

ProviderKinds == { "openai", "anthropic", "google", "ollama" }

\* Response(provider, model, content, error=None, usage=None).
Response(kind, content, error, usage) ==
    [provider |-> kind, model |-> "model", content |-> content,
     error |-> error, usage |-> usage]

\* Response.ok
Ok(r) == r.error = None

EmptyText == JStr(<< >>)

EmptyResponseError ==
    << "E", "m", "p", "t", "y", " ", "r", "e", "s", "p", "o", "n", "s", "e",
       " ", "f", "r", "o", "m", " ", "A", "P", "I" >>

BlockedPrefix ==
    << "R", "e", "s", "p", "o", "n", "s", "e", " ", "b", "l", "o", "c", "k",
       "e", "d", ":", " " >>

StopText == << "S", "T", "O", "P" >>

\* f"{v}" of a value taken from the body: the text itself for a string.
\* The bodies of this model carry only strings where one is formatted.
Format(v) == IF v.type = "str" THEN v.str ELSE << "?" >>

\* An empty extraction returned without an error.
EmptyResponseAsSuccess(kind) == Response(kind, EmptyText, None, JNull)

\* The failure returned when no content was extracted.
EmptyResponse(kind) == Response(kind, EmptyText, Some(EmptyResponseError), JNull)

\* What OpenAIProvider.complete makes of the decoded body.
OpenAIExtract(data) ==
    LET content == safe_get(data,
                     << K("choices"), I(0), K("message"), K("content") >>,
                     EmptyText)
        usage == safe_get(data, << K("usage") >>, JNull)
    IN  IF ~Truthy(content) THEN EmptyResponse("openai")
        ELSE Response("openai", content, None, usage)

\* What AnthropicProvider.complete makes of the decoded body.
AnthropicExtract(data) ==
    LET content == safe_get(data, << K("content"), I(0), K("text") >>,
                            EmptyText)
        usage == safe_get(data, << K("usage") >>, JNull)
    IN  IF ~Truthy(content) THEN EmptyResponse("anthropic")
        ELSE Response("anthropic", content, None, usage)

\* What GoogleProvider.complete makes of the decoded body.
GoogleExtract(data) ==
    LET content == safe_get(data,
                     << K("candidates"), I(0), K("content"), K("parts"),
                        I(0), K("text") >>,
                     EmptyText)
        usage == safe_get(data, << K("usageMetadata") >>, JNull)
        block_reason == safe_get(data,
                     << K("candidates"), I(0), K("finishReason") >>, JNull)
    IN  IF ~Truthy(content)
        THEN IF Truthy(block_reason) /\ block_reason # JStr(StopText)
             THEN Response("google", EmptyText,
                           Some(BlockedPrefix \o Format(block_reason)), JNull)
             ELSE EmptyResponse("google")
        ELSE Response("google", content, None, usage)

\* What OllamaProvider.complete makes of the decoded body.
OllamaExtract(data) ==
    LET content == safe_get(data, << K("message"), K("content") >>, EmptyText)
    IN  IF ~Truthy(content) THEN EmptyResponse("ollama")
        ELSE Response("ollama", content, None, JNull)

\* The complete() of the provider class registered under `kind`.
Extract(kind, data) ==
    CASE kind = "openai" -> OpenAIExtract(data)
      [] kind = "anthropic" -> AnthropicExtract(data)
      [] kind = "google" -> GoogleExtract(data)
      [] kind = "ollama" -> OllamaExtract(data)

\* ------------------------------------------------------------- exceptions

\* An exception: its class, and the HTTP status of an HTTPStatusError.
Exc(cls, status) == [cls |-> cls, status |-> status]

\* The classes `except Exception` catches: every class the transport or the
\* JSON decoder raises derives from Exception.
ExceptionClasses ==
    { "HTTPStatusError", "ConnectError", "ReadTimeout", "ConnectTimeout",
      "JSONDecodeError", "RuntimeError" }

\* A handler that catches the errors of the HTTP library only.
CaughtOnlyHttpErrors(e) ==
    e.cls \in { "HTTPStatusError", "ConnectError", "ReadTimeout", "ConnectTimeout" }

\* Whether the handler `except Exception as e` of complete() catches e.
CaughtByComplete(e) == e.cls \in ExceptionClasses

DigitChars == << "0", "1", "2", "3", "4", "5", "6", "7", "8", "9" >>

\* The three digits of an HTTP status.
StatusDigits(n) ==
    << DigitChars[(n \div 100) + 1], DigitChars[((n \div 10) % 10) + 1],
       DigitChars[(n % 10) + 1] >>

\* The api_key of the configuration: a Google key is AIzaSy and 33 more
\* characters, the others are kept out of every URL.
GoogleApiKey == PrefAIza \o Rep("g", 33)

\* The part of the request URL that an HTTPStatusError quotes: Google's
\* carries ?key={api_key}.
UrlText(kind) ==
    IF kind = "google" THEN << "?" >> \o PrefKey \o GoogleApiKey
    ELSE << "/" >>

\* str(e): the status and the URL for an HTTPStatusError, a fixed text for a
\* connection or decoding error, the empty text for a timeout.
StrOf(e, kind) ==
    CASE e.cls = "HTTPStatusError" ->
            StatusDigits(e.status) \o << " " >> \o UrlText(kind)
      [] e.cls = "ConnectError" -> << "c", "o", "n", "n", "e", "c", "t" >>
      [] e.cls = "JSONDecodeError" -> << "j", "s", "o", "n" >>
      [] e.cls = "RuntimeError" ->
            << "R", "e", "q", "u", "e", "s", "t", " ", "f", "a", "i", "l",
               "e", "d" >>
      [] OTHER -> << >>

\* The text of the exception, not redacted.
ErrorTextRaw(e, kind) == StrOf(e, kind)

\* The text complete() logs and returns for a caught exception.
ErrorText(e, kind) == sanitize_error(StrOf(e, kind))

\* The Response the except branch of complete() returns.
ErrorResponse(e, kind) == Response(kind, EmptyText, Some(ErrorText(e, kind)), JNull)

\* -------------------------------------------------------------- transport

D1(k, v) == JDict(k :> v)
D2(k1, v1, k2, v2) == JDict((k1 :> v1) @@ (k2 :> v2))

Hi == JStr(<< "h", "i" >>)
UsageValue == D1("total_tokens", JNum(7))

\* Bodies a server answers a 200 with: the documented shape of each
\* provider, and bodies with no usable text.
OpenAIBody ==
    D2("choices", JList(<< D1("message", D1("content", Hi)) >>),
       "usage", UsageValue)
AnthropicBody ==
    D2("content", JList(<< D1("text", Hi) >>), "usage", UsageValue)
GoogleBody ==
    D1("candidates",
       JList(<< D2("content", D1("parts", JList(<< D1("text", Hi) >>)),
                   "finishReason", JStr(StopText)) >>))
GoogleBlockedBody ==
    D1("candidates",
       JList(<< D1("finishReason", JStr(<< "S", "A", "F", "E", "T", "Y" >>)) >>))
OllamaBody == D1("message", D1("content", Hi))
OllamaEmptyBody == D1("message", D1("content", EmptyText))
OllamaNullBody == D1("message", D1("content", JNull))
OllamaNumberBody == D1("message", D1("content", JNum(42)))
EmptyObjectBody == JDict(<< >>)
NonObjectBody == JList(<< >>)

Bodies ==
    { OpenAIBody, AnthropicBody, GoogleBody, GoogleBlockedBody, OllamaBody,
      OllamaEmptyBody, OllamaNullBody, OllamaNumberBody, EmptyObjectBody,
      NonObjectBody }

\* What one client.request() ends in: an HTTP response (its status, and for
\* a 200 its body: Some(decoded JSON), or None when it is not JSON), or an
\* exception of the transport.
HttpResponse(status, body) == [cls |-> "Response", status |-> status, body |-> body]
TransportError(cls) == [cls |-> cls, status |-> 0, body |-> None]

Statuses == { 302, 400, 404, 429, 499, 500 }

TransportOutcomes ==
    { HttpResponse(200, Some(b)) : b \in Bodies }
    \cup { HttpResponse(200, None) }
    \cup { HttpResponse(st, None) : st \in Statuses }
    \cup { TransportError(c) : c \in { "ConnectError", "ReadTimeout", "ConnectTimeout" } }

\* The outcomes of the council model: success, an empty body, a client
\* error, a connection failure.
CouncilOutcomes ==
    { HttpResponse(200, Some(OllamaBody)), HttpResponse(200, Some(EmptyObjectBody)),
      HttpResponse(404, None), TransportError("ConnectError") }

\* resp.raise_for_status(): every status outside 2xx raises.
IsSuccessStatus(status) == status >= 200 /\ status <= 299

\* Whether the attempt returned a response that passed raise_for_status().
Returned(o) == o.cls = "Response" /\ IsSuccessStatus(o.status)

\* The exception an attempt that did not return raised.
ExcOf(o) ==
    IF o.cls = "Response" THEN Exc("HTTPStatusError", o.status)
    ELSE Exc(o.cls, 0)

\* The range check with its lower end excluded.
NonRetryableStatusExclusive(status) == status > 400 /\ status < 500 /\ status # 429

\* "Don't retry 4xx errors (except 429)".
NonRetryableStatus(status) == status >= 400 /\ status < 500 /\ status # 429

\* A loop whose second except clause names ConnectError only.
RetryableWithoutReadTimeout(e) ==
    \/ e.cls = "HTTPStatusError" /\ ~NonRetryableStatus(e.status)
    \/ e.cls = "ConnectError"

\* Whether an except clause of the loop stores e in last_error (and the loop
\* goes on) instead of letting it leave _request_with_retry.
Retryable(e) ==
    \/ e.cls = "HTTPStatusError" /\ ~NonRetryableStatus(e.status)
    \/ e.cls \in { "ConnectError", "ReadTimeout" }

RECURSIVE Pow2(_)
Pow2(k) == IF k <= 0 THEN 1 ELSE 2 * Pow2(k - 1)

\* wait_time = (2 ** attempt) + 0.5, in half seconds.
WaitTime(attempt) == 2 * Pow2(attempt) + 1

\* The budget check off by one: a sleep and a further attempt after the last.
RetriesLeftInclusive(attempt, max_retries) == attempt <= max_retries

\* Whether the loop sleeps and tries again after a retryable failure of
\* attempt number `attempt`.
RetriesLeft(attempt, max_retries) == attempt < max_retries

\* How complete() ends when _request_with_retry returned the response o:
\* resp.json() raises on a body that is not JSON.
OnResponse(kind, o) ==
    IF o.body = None
    THEN [exc |-> Some(Exc("JSONDecodeError", 0))]
    ELSE [exc |-> None, response |-> Extract(kind, o.body[1])]

\* ------------------------------------------------------------------ state

VARIABLES
    clients,     \* the provider instances and, for each, its call of complete()
    council_pc,  \* where query_council is: "direct" when complete() is called
                 \* without it
    finished,    \* the clients whose complete() ended, in the order they ended
    returned,    \* the list query_council returned
    san_pc,      \* where the redaction run is
    san_in,      \* the text given to sanitize_error
    san_out,     \* sanitize_error(san_in)
    san_again,   \* sanitize_error(san_out)
    sonar,       \* the SonarClient call of scan_and_wait in progress
    loop,        \* the FeedbackLoop and its call of run() in progress
    disk         \* the files of the project directory: path -> content

vars ==
    << clients, council_pc, finished, returned, san_pc, san_in, san_out,
       san_again, sonar, loop, disk >>
sanVars == << san_pc, san_in, san_out, san_again >>
councilVars == << council_pc, returned >>
providerVars == << clients, council_pc, finished, returned >>
qualityVars == << sonar, loop, disk >>

\* A provider built by BaseProvider.__init__ on which complete() has been
\* called and has not yet run: no HTTP client, nothing sent.
\*   client      self._client: "none" or "open"
\*   pc          "start", "request" (awaiting client.request), "sleep"
\*               (awaiting asyncio.sleep), "done" (returned), "raised"
\*   attempt     the loop variable of _request_with_retry
\*   last_error  the local last_error
\*   wait_time   the local wait_time of the sleep in progress
\*   sent        how many requests the call has issued
\*   trace       what each request ended in, in order
\*   sleeps      the delays slept, in order
\*   caught      the exception the except branch of complete() handled
\*   logged      the error texts complete() logged
\*   result      the Response complete() returned
\*   raised      the exception that left complete()
\*   timeout     self.timeout, in seconds

\* The ceiling and the default of the timeout, in seconds.
TimeoutCeiling == 300
DefaultTimeout == 60

\* int(x) of a number given in half seconds: the whole seconds, rounded
\* toward zero.
IntOfHalves(h) == IF h >= 0 THEN h \div 2 ELSE 0 - ((0 - h) \div 2)

\* config.get("timeout", 60) in half seconds: configured is None when the
\* key is absent.
ConfigGetTimeout(configured) ==
    IF configured = None THEN 2 * DefaultTimeout ELSE configured[1]

\* A constructor that stores the configured whole seconds as they are.
ClampNever(seconds) == seconds

\* min(seconds, 300)
Clamp(seconds) == IF seconds < TimeoutCeiling THEN seconds ELSE TimeoutCeiling

\* self.timeout = min(int(config.get("timeout", 60)), 300)
EffectiveTimeout(configured) == Clamp(IntOfHalves(ConfigGetTimeout(configured)))

NewProvider(kind, max_retries) ==
    [kind |-> kind, max_retries |-> max_retries, client |-> "none",
     pc |-> "start", attempt |-> 0, last_error |-> None, wait_time |-> 0,
     sent |-> 0, trace |-> << >>, sleeps |-> << >>, caught |-> None,
     logged |-> << >>, result |-> None, raised |-> None,
     timeout |-> EffectiveTimeout(None)]

\* A call of the constructor with a configuration that is about to run:
\* timeout is None or the configured number in half seconds.
MaxConfigured == 604
ConfiguredTimeouts == { None } \cup { Some(h) : h \in 0..MaxConfigured }

PendingInit(kind, max_retries, timeout) ==
    [pc |-> "init", kind |-> kind,
     config |-> [max_retries |-> max_retries, timeout |-> timeout]]

\* BaseProvider.__init__
BaseProviderInit(pending) ==
    [kind |-> pending.kind, max_retries |-> pending.config.max_retries,
     timeout |-> EffectiveTimeout(pending.config.timeout),
     configured |-> pending.config.timeout,
     pc |-> "start", client |-> "none"]

Indices == 1..Len(clients)

\* The constructor runs; complete() is not called on the provider here.
Construct(i) ==
    /\ i \in Indices
    /\ clients[i].pc = "init"
    /\ clients' = [clients EXCEPT ![i] = BaseProviderInit(@)]
    /\ UNCHANGED << council_pc, finished, returned, sanVars, qualityVars >>

\* _get_client(): the pool is created when there is none.
GetClient(c) == [c EXCEPT !.client = "open"]

\* The provider after complete() ran up to its first suspension: the pool is
\* fetched, the loop is entered and the request of attempt 0 is issued.
StartStep(c) ==
    [GetClient(c) EXCEPT !.pc = "request", !.attempt = 0,
                         !.last_error = None, !.sent = 1]

\* The provider after the sleep of the loop body: the delay is over, the
\* loop variable advances and the next request is issued.
WakeStep(c) ==
    [c EXCEPT !.sleeps = Append(@, c.wait_time), !.attempt = @ + 1,
              !.sent = @ + 1, !.pc = "request"]

\* complete() up to its first suspension: the payload is built, the pool is
\* fetched and the request of attempt 0 is issued.
CompleteStart(i) ==
    /\ i \in Indices
    /\ council_pc \in { "direct", "gathering" }
    /\ clients[i].pc = "start"
    /\ clients' = [clients EXCEPT ![i] = StartStep(@)]
    /\ UNCHANGED << council_pc, finished, returned, sanVars, qualityVars >>

\* The exception e reaches the try block of complete(): the except branch
\* logs and returns the redacted failure, or e leaves complete().
EndWithException(c, e) ==
    IF CaughtByComplete(e)
    THEN [c EXCEPT !.pc = "done", !.caught = Some(e),
                   !.logged = Append(@, ErrorText(e, c.kind)),
                   !.result = Some(ErrorResponse(e, c.kind))]
    ELSE [c EXCEPT !.pc = "raised", !.raised = Some(e)]

\* A complete() that takes a response without content for a failure of the
\* attempt and tries again while retries are left.
EndWithResponseRetryingEmpty(c, o) ==
    IF OnResponse(c.kind, o).exc # None
    THEN EndWithException(c, OnResponse(c.kind, o).exc[1])
    ELSE IF OnResponse(c.kind, o).response.error # None
            /\ RetriesLeft(c.attempt, c.max_retries)
    THEN [c EXCEPT !.wait_time = WaitTime(c.attempt), !.pc = "sleep"]
    ELSE [c EXCEPT !.pc = "done", !.result = Some(OnResponse(c.kind, o).response)]

\* _request_with_retry returned the response o to complete().
EndWithResponse(c, o) ==
    IF OnResponse(c.kind, o).exc # None
    THEN EndWithException(c, OnResponse(c.kind, o).exc[1])
    ELSE [c EXCEPT !.pc = "done", !.result = Some(OnResponse(c.kind, o).response)]

\* The request of the current attempt ended in o: the rest of the loop body
\* of _request_with_retry, and of complete() when the loop is left.
ReceiveStep(c, o) ==
    LET t == [c EXCEPT !.trace = Append(@, o)]
    IN  IF Returned(o) THEN EndWithResponse(t, o)
        ELSE IF ~Retryable(ExcOf(o)) THEN EndWithException(t, ExcOf(o))
        ELSE IF RetriesLeft(c.attempt, c.max_retries)
             THEN [t EXCEPT !.last_error = Some(ExcOf(o)),
                            !.wait_time = WaitTime(c.attempt),
                            !.pc = "sleep"]
             ELSE EndWithException([t EXCEPT !.last_error = Some(ExcOf(o))],
                                   ExcOf(o))

\* The pending request of client i ends in one of the outcomes.
Receive(i, outcomes) ==
    /\ i \in Indices
    /\ clients[i].pc = "request"
    /\ \E o \in outcomes :
         /\ clients' = [clients EXCEPT ![i] = ReceiveStep(@, o)]
         /\ finished' = IF ReceiveStep(clients[i], o).pc \in { "done", "raised" }
                        THEN Append(finished, i)
                        ELSE finished
    /\ UNCHANGED << council_pc, returned, sanVars, qualityVars >>

\* asyncio.sleep(wait_time) is over: the next iteration issues its request.
Wake(i) ==
    /\ i \in Indices
    /\ clients[i].pc = "sleep"
    /\ clients' = [clients EXCEPT ![i] = WakeStep(@)]
    /\ UNCHANGED << council_pc, finished, returned, sanVars, qualityVars >>

\* close(): the owner closes the pool of a provider it no longer calls.
Close(i) ==
    /\ i \in Indices
    /\ clients[i].pc = "done"
    /\ clients[i].client = "open"
    /\ clients' = [clients EXCEPT ![i].client = "none"]
    /\ UNCHANGED << council_pc, finished, returned, sanVars, qualityVars >>

\* ------------------------------------------------- providers: the pool

\* How many pools the model lets one instance create, how many complete()
\* calls its owner makes and how many close() calls.
MaxPools == 3
MaxCalls == 3
MaxCloses == 2

\* A provider instance seen through its pool.
\*   client    self._client: None, or the number of a pool
\*   pools     the pools created so far, "open" or "closed" (is_closed)
\*   inflight  the local `client` of each complete() call that has not
\*             returned
\*   closer    "idle", or "aclose" while a close() awaits aclose()
\*   started   how many complete() calls were made
\*   closes    how many close() calls were made
\*   raced     a complete() call fetched the pool while a close() awaited
PoolInstance ==
    [pc |-> "pool", client |-> None, pools |-> << >>, inflight |-> << >>,
     closer |-> "idle", started |-> 0, closes |-> 0, raced |-> FALSE]

\* `self._client is None or self._client.is_closed`
NoUsableClient(p) == p.client = None \/ p.pools[p.client[1]] = "closed"

\* _get_client(): a pool is created when there is none or the one there is
\* closed; the function holds no await.
GetClientOf(p) ==
    IF NoUsableClient(p)
    THEN [p EXCEPT !.pools = Append(@, "open"),
                   !.client = Some(Len(p.pools) + 1)]
    ELSE p

\* complete() up to its first request: _request_with_retry fetches the pool
\* into its local `client` and uses it for every attempt.
PoolCompleteStep(p) ==
    LET got == GetClientOf(p)
    IN  [got EXCEPT !.inflight = Append(@, got.client[1]),
                    !.started = @ + 1,
                    !.raced = @ \/ p.closer = "aclose"]

\* close() up to its await: httpx marks the client closed when aclose() is
\* entered and then awaits the transport; without an open pool close() does
\* nothing.
PoolCloseStep(p) ==
    IF p.client # None /\ p.pools[p.client[1]] # "closed"
    THEN [p EXCEPT !.pools[p.client[1]] = "closed", !.closer = "aclose",
                   !.closes = @ + 1]
    ELSE [p EXCEPT !.closes = @ + 1]

\* close() after aclose() returned: `self._client = None`.
PoolCloseEndStep(p) == [p EXCEPT !.client = None, !.closer = "idle"]

PoolComplete(i) ==
    /\ i \in Indices
    /\ council_pc = "pool"
    /\ clients[i].started < MaxCalls
    /\ Len(GetClientOf(clients[i]).pools) <= MaxPools
    /\ clients' = [clients EXCEPT ![i] = PoolCompleteStep(@)]
    /\ UNCHANGED << council_pc, finished, returned, sanVars, qualityVars >>

\* The complete() call number k of those in flight returns.
PoolCompleteEnds(i, k) ==
    /\ i \in Indices
    /\ council_pc = "pool"
    /\ k \in DOMAIN clients[i].inflight
    /\ clients' = [clients EXCEPT ![i].inflight =
                       SubSeq(@, 1, k - 1) \o SubSeq(@, k + 1, Len(@))]
    /\ UNCHANGED << council_pc, finished, returned, sanVars, qualityVars >>

PoolClose(i) ==
    /\ i \in Indices
    /\ council_pc = "pool"
    /\ clients[i].closer = "idle"
    /\ clients[i].closes < MaxCloses
    /\ clients' = [clients EXCEPT ![i] = PoolCloseStep(@)]
    /\ UNCHANGED << council_pc, finished, returned, sanVars, qualityVars >>

PoolCloseEnds(i) ==
    /\ i \in Indices
    /\ council_pc = "pool"
    /\ clients[i].closer = "aclose"
    /\ clients' = [clients EXCEPT ![i] = PoolCloseEndStep(@)]
    /\ UNCHANGED << council_pc, finished, returned, sanVars, qualityVars >>

\* ---------------------------------------------------------- query_council

\* The results in the order the tasks ended.
GatherResultsAsCompleted(cs, order) ==
    [k \in 1..Len(cs) |-> cs[order[k]].result[1]]

\* The results up to the first failed one.
GatherResultsUntilFailure(cs, order) ==
    LET failed == { i \in 1..Len(cs) : cs[i].result[1].error # None }
        stop == IF failed = {} THEN Len(cs) + 1
                ELSE CHOOSE i \in failed : \A j \in failed : i <= j
    IN  [i \in 1..(stop - 1) |-> cs[i].result[1]]

\* What asyncio.gather(*tasks) returns: the result of task i at position i.
GatherResults(cs, order) == [i \in 1..Len(cs) |-> cs[i].result[1]]

\* query_council up to its await: no provider, an empty list at once;
\* otherwise one complete() per provider, handed to gather.
QueryCouncil ==
    /\ council_pc = "idle"
    /\ IF clients = << >>
       THEN council_pc' = "returned" /\ returned' = Some(<< >>)
       ELSE council_pc' = "gathering" /\ returned' = returned
    /\ UNCHANGED << clients, finished, sanVars, qualityVars >>

\* A gather that resolves with the results at hand as soon as one task ended.
GatherResolveOnFirstResult ==
    /\ council_pc = "gathering"
    /\ \E i \in Indices : clients[i].pc = "done"
    /\ council_pc' = "returned"
    /\ returned' = Some(GatherResults(
                        SelectSeq(clients, LAMBDA c : c.pc = "done"), finished))
    /\ UNCHANGED << clients, finished, sanVars, qualityVars >>

\* A dispatcher that closes the pool of every provider once gather resolved.
GatherResolveClosing ==
    /\ council_pc = "gathering"
    /\ \A i \in Indices : clients[i].pc = "done"
    /\ council_pc' = "returned"
    /\ returned' = Some(GatherResults(clients, finished))
    /\ clients' = [i \in Indices |-> [clients[i] EXCEPT !.client = "none"]]
    /\ UNCHANGED << finished, sanVars, qualityVars >>

\* gather resolves: with return_exceptions=False the first exception of a
\* task is raised to the caller; otherwise it waits for every task.
GatherResolve ==
    /\ council_pc = "gathering"
    /\ IF \E i \in Indices : clients[i].pc = "raised"
       THEN council_pc' = "raised" /\ returned' = returned
       ELSE /\ \A i \in Indices : clients[i].pc = "done"
            /\ council_pc' = "returned"
            /\ returned' = Some(GatherResults(clients, finished))
    /\ UNCHANGED << clients, finished, sanVars, qualityVars >>

\* ------------------------------------------------- redaction of one text

\* The pieces an input text is built from: the prefix of pattern 1..7, a run
\* of class characters of a length around the thresholds, or a blank.
RunLengths == { 11, 20, 30 }
PieceKinds ==
    { [piece |-> "prefix", n |-> k] : k \in 1..Len(SANITIZE_PATTERNS) }
    \cup { [piece |-> "run", n |-> n] : n \in RunLengths }
    \cup { [piece |-> "blank", n |-> 1] }

\* The run at position j of a text repeats the j-th of these letters, so
\* that two runs of one text never hold the same characters.
RunLetters == << "a", "b", "c", "d", "e", "f", "g", "h" >>

PieceText(p, j) ==
    CASE p.piece = "prefix" -> SANITIZE_PATTERNS[p.n].prefix
      [] p.piece = "run" -> Rep(RunLetters[j], p.n)
      [] p.piece = "blank" -> << " " >>

RECURSIVE TextFrom(_, _)
TextFrom(pieces, j) ==
    IF j > Len(pieces) THEN << >>
    ELSE PieceText(pieces[j], j) \o TextFrom(pieces, j + 1)

PieceLists == UNION { [1..n -> PieceKinds] : n \in 1..MaxPieces }

InputTexts == { TextFrom(ps, 1) : ps \in PieceLists }

\* result = sanitize_error(error)
Sanitize ==
    /\ san_pc = "start"
    /\ san_out' = sanitize_error(san_in)
    /\ san_pc' = "once"
    /\ UNCHANGED << clients, council_pc, finished, returned, san_in, san_again, qualityVars >>

\* sanitize_error applied to its own output
SanitizeAgain ==
    /\ san_pc = "once"
    /\ san_again' = sanitize_error(san_out)
    /\ san_pc' = "twice"
    /\ UNCHANGED << clients, council_pc, finished, returned, san_in, san_out, qualityVars >>

\* ------------------------------------------------- sonar_client: texts

\* str.split(sep) for a separator of one character: the pieces between the
\* occurrences of sep.
RECURSIVE SplitChar(_, _, _, _)
SplitChar(s, sep, i, piece) ==
    IF i > Len(s) THEN << piece >>
    ELSE IF s[i] = sep THEN << piece >> \o SplitChar(s, sep, i + 1, << >>)
    ELSE SplitChar(s, sep, i + 1, Append(piece, s[i]))

\* output.split("\n")
Lines(s) == SplitChar(s, "\n", 1, << >>)

\* The least position from i on at which p occurs in s, 0 when there is none.
RECURSIVE FindFrom(_, _, _)
FindFrom(s, p, i) ==
    IF i + Len(p) - 1 > Len(s) THEN 0
    ELSE IF OccursAt(s, i, p) THEN i
    ELSE FindFrom(s, p, i + 1)

\* line.split(p)[1] for a line that contains p: what stands between the
\* first occurrence of p and the next one, or the end of the line.
Second(line, p) ==
    LET from == FindFrom(line, p, 1) + Len(p)
        next == FindFrom(line, p, from)
        to == IF next = 0 THEN Len(line) ELSE next - 1
    IN  SubSeq(line, from, to)

Whitespace == { " ", "\t", "\n", "\r" }

\* text.split(): the words of the text, none when it holds only whitespace.
RECURSIVE Words(_, _, _)
Words(s, i, word) ==
    IF i > Len(s) THEN (IF word = << >> THEN << >> ELSE << word >>)
    ELSE IF s[i] \in Whitespace
         THEN (IF word = << >> THEN << >> ELSE << word >>)
              \o Words(s, i + 1, << >>)
    ELSE Words(s, i + 1, Append(word, s[i]))

\* An exception of class cls whose str() is msg.
Error(cls, msg) == [cls |-> cls, msg |-> msg]

TaskMarker ==
    << "t", "a", "s", "k", "?", "i", "d", "=" >>

ScannerFailedPrefix ==
    << "s", "o", "n", "a", "r", "-", "s", "c", "a", "n", "n", "e", "r",
       " ", "f", "a", "i", "l", "e", "d", ":", "\n" >>

NoTaskIdMessage ==
    << "C", "o", "u", "l", "d", " ", "n", "o", "t", " ", "f", "i", "n",
       "d", " ", "t", "a", "s", "k", " ", "I", "D", " ", "i", "n", " ",
       "s", "c", "a", "n", "n", "e", "r", " ", "o", "u", "t", "p", "u",
       "t" >>

AnalysisPrefix ==
    << "S", "o", "n", "a", "r", "Q", "u", "b", "e", " ", "a", "n", "a",
       "l", "y", "s", "i", "s", " " >>

TimeoutPrefix ==
    << "S", "o", "n", "a", "r", "Q", "u", "b", "e", " ", "a", "n", "a",
       "l", "y", "s", "i", "s", " ", "t", "i", "m", "e", "o", "u", "t",
       " ", "a", "f", "t", "e", "r", " " >>

\* What sonar-scanner may print: a run that names its task, one that names
\* none, one whose line ends after the marker, and nothing at all.
OutputWithTask ==
    << "I", "N", "F", "O", " ", "g", "o", "\n", "a", "t", " ", "/", "c",
       "e", "/", "t", "a", "s", "k", "?", "i", "d", "=", "T", "1", " ",
       "o", "k", "\n", "I", "N", "F", "O", " ", "e", "n", "d" >>

OutputWithoutTask ==
    << "E", "R", "R", "O", "R", " ", "n", "o", " ", "s", "e", "r", "v",
       "e", "r" >>

OutputBareMarker ==
    << "a", "t", " ", "/", "c", "e", "/", "t", "a", "s", "k", "?", "i",
       "d", "=" >>

ScannerOutputs ==
    { OutputWithTask, OutputWithoutTask, OutputBareMarker, << >> }

IndexErrorMessage ==
    << "l", "i", "s", "t", " ", "i", "n", "d", "e", "x", " ", "o", "u",
       "t", " ", "o", "f", " ", "r", "a", "n", "g", "e" >>

SUCCESS ==
    << "S", "U", "C", "C", "E", "S", "S" >>

FAILED ==
    << "F", "A", "I", "L", "E", "D" >>

CANCELED ==
    << "C", "A", "N", "C", "E", "L", "E", "D" >>

PENDING ==
    << "P", "E", "N", "D", "I", "N", "G" >>

IN_PROGRESS ==
    << "I", "N", "_", "P", "R", "O", "G", "R", "E", "S", "S" >>

\* A status the server may report that the client does not know.
QUEUED ==
    << "Q", "U", "E", "U", "E", "D" >>

ComponentA ==
    << "p", "r", "o", "j", ":", "s", "r", "c", "/", "a", ".", "p",
       "y" >>

ComponentGone ==
    << "g", "o", "n", "e", ".", "p", "y" >>

\* str() of the FileNotFoundError of a missing sonar-scanner binary.
NoScannerMessage ==
    << "[", "E", "r", "r", "n", "o", " ", "2", "]", " ", "N", "o", " ",
       "s", "u", "c", "h", " ", "f", "i", "l", "e", " ", "o", "r", " ",
       "d", "i", "r", "e", "c", "t", "o", "r", "y", ":", " ", "'", "s",
       "o", "n", "a", "r", "-", "s", "c", "a", "n", "n", "e", "r",
       "'" >>

\* str() of the HTTPStatusError of a failed request to the server.
ServerErrorMessage ==
    << "S", "e", "r", "v", "e", "r", " ", "e", "r", "r", "o", "r", " ",
       "'", "5", "0", "0", " ", "I", "n", "t", "e", "r", "n", "a", "l",
       " ", "S", "e", "r", "v", "e", "r", " ", "E", "r", "r", "o", "r",
       "'", " ", "f", "o", "r", " ", "u", "r", "l" >>

\* str(n) for a natural number.
RECURSIVE Decimal(_)
Decimal(n) ==
    IF n < 10 THEN << DigitChars[n + 1] >>
    ELSE Decimal(n \div 10) \o << DigitChars[(n % 10) + 1] >>

\* ------------------------------------------------ sonar_client: the scan

MaxTimeout == 4
MaxPollInterval == 2
MaxPages == 2
MaxTotal == 3

\* How long a request takes and how much longer than asked a sleep lasts, in
\* the unit of timeout and poll_interval.
Latencies == { 0, 1 }

\* What the scanner process ends in: it could not be started, or it exited
\* with a return code after printing output.
ScannerOutcomes ==
    { [started |-> TRUE, returncode |-> rc, output |-> out] :
          rc \in { 0, 1 }, out \in ScannerOutputs }
    \cup { [started |-> FALSE, returncode |-> 0, output |-> << >>] }

TaskStatuses == { SUCCESS, FAILED, CANCELED, PENDING, IN_PROGRESS, QUEUED }

\* What GET /api/ce/task ends in: a 2xx response with a task status, or a
\* response whose raise_for_status() raises.
PollOutcomes ==
    { [ok |-> TRUE, status |-> s] : s \in TaskStatuses }
    \cup { [ok |-> FALSE, status |-> << >>] }

\* What GET /api/issues/search ends in: a page of items with the total the
\* server reports, or a response whose raise_for_status() raises.
PageItems ==
    { << >>, << [component |-> ComponentA] >>,
      << [component |-> ComponentA], [component |-> ComponentGone] >> }

PageOutcomes ==
    { [ok |-> TRUE, issues |-> its, total |-> t] :
          its \in PageItems, t \in 0..MaxTotal }
    \cup { [ok |-> FALSE, issues |-> << >>, total |-> 0] }

\* SonarIssue built from an item of a page: the file is what follows the last
\* colon of the component.
SonarIssue(item) ==
    LET parts == SplitChar(item.component, ":", 1, << >>)
    IN  [file |-> parts[Len(parts)]]

SonarReport(issues) == [issues |-> issues]

\* SonarReport.passed
ReportPassed(report) == Len(report.issues) = 0

\* A call of scan_and_wait(timeout, poll_interval) that awaits the scanner
\* process.
\*   pc        "scanner" (awaiting proc.communicate), "poll" (awaiting the
\*             GET of _wait_for_task), "sleep" (awaiting asyncio.sleep),
\*             "issues" (awaiting the GET of get_issues), "returned", "raised"
\*   process   what the scanner process ended in
\*   elapsed   time.time() - start
\*   checks    how many status requests were issued
\*   statuses  what each status request ended in, in order
\*   sleeps    how many sleeps were started
\*   page      the local page of get_issues
\*   issues    the local issues of get_issues
\*   requests  the p and ps parameters of each request of get_issues, in order
\*   pages     what each request of get_issues ended in, in order
\*   result    the SonarReport returned
\*   raised    the exception that left scan_and_wait
NewScan(timeout, poll_interval) ==
    [pc |-> "scanner", timeout |-> timeout, poll_interval |-> poll_interval,
     process |-> None, task_id |-> None, elapsed |-> 0, checks |-> 0, statuses |-> << >>,
     sleeps |-> 0, page |-> 0, issues |-> << >>, requests |-> << >>,
     pages |-> << >>, result |-> None, raised |-> None]

Raise(s, e) == [s EXCEPT !.pc = "raised", !.raised = Some(e)]

\* The loop over the lines of the output: the first line that holds the
\* marker gives the task id, the first word after the marker.
RECURSIVE TaskIdIn(_, _)
TaskIdIn(lines, k) ==
    IF k > Len(lines)
    THEN [exc |-> Some(Error("RuntimeError", NoTaskIdMessage)),
          task_id |-> << >>]
    ELSE IF Contains(lines[k], TaskMarker)
    THEN LET words == Words(Second(lines[k], TaskMarker), 1, << >>)
         IN  IF words = << >>
             THEN [exc |-> Some(Error("IndexError", IndexErrorMessage)),
                   task_id |-> << >>]
             ELSE [exc |-> None, task_id |-> words[1]]
    ELSE TaskIdIn(lines, k + 1)

\* _run_scanner once the process ended in p.
RunScannerIgnoringExit(p) ==
    IF ~p.started
    THEN [exc |-> Some(Error("FileNotFoundError", NoScannerMessage)),
          task_id |-> << >>]
    ELSE TaskIdIn(Lines(p.output), 1)

RunScanner(p) ==
    IF ~p.started
    THEN [exc |-> Some(Error("FileNotFoundError", NoScannerMessage)), task_id |-> << >>]
    ELSE IF p.returncode # 0
    THEN [exc |-> Some(Error("RuntimeError", ScannerFailedPrefix \o p.output)),
          task_id |-> << >>]
    ELSE TaskIdIn(Lines(p.output), 1)

\* time.time() - start < timeout
WithinTimeoutInclusive(s) == s.elapsed <= s.timeout

WithinTimeout(s) == s.elapsed < s.timeout

\* The head of the while loop of _wait_for_task: another status request
\* while the elapsed time is below the timeout, TimeoutError after the loop.
WhileWithinTimeout(s) ==
    IF WithinTimeout(s)
    THEN [s EXCEPT !.pc = "poll", !.checks = @ + 1]
    ELSE Raise(s, Error("TimeoutError",
                        TimeoutPrefix \o Decimal(s.timeout) \o << "s" >>))

\* _wait_for_task from its first line: start is read and the loop is entered.
WaitForTask(s) == WhileWithinTimeout([s EXCEPT !.elapsed = 0])

\* page_size of get_issues
page_size == 500

\* The request of the page in the local page of s.
RequestPage(s) ==
    [s EXCEPT !.pc = "issues",
              !.requests = Append(@, [p |-> s.page, ps |-> page_size])]

\* get_issues from its first line to its first request.
GetIssues(s) == RequestPage([s EXCEPT !.page = 1, !.issues = << >>])

\* scan_and_wait that goes from the scanner to the issues.
ScanStepWithoutWait(s, p) ==
    LET r == RunScanner(p)
        t == [s EXCEPT !.process = Some(p)]
    IN  IF r.exc # None THEN Raise(t, r.exc[1])
        ELSE GetIssues([t EXCEPT !.task_id = Some(r.task_id)])

\* scan_and_wait once the scanner process ended: _run_scanner raises or
\* returns the task id, and _wait_for_task runs up to its first request.
ScanStep(s, p) ==
    LET r == RunScanner(p)
        t == [s EXCEPT !.process = Some(p)]
    IN  IF r.exc # None THEN Raise(t, r.exc[1])
        ELSE WaitForTask([t EXCEPT !.task_id = Some(r.task_id)])

\* status == "SUCCESS"
SuccessKeepsPolling(status) == FALSE

IsSuccess(status) == status = SUCCESS

\* status in ("FAILED", "CANCELED")
OnlyFailedIsFatal(status) == status = FAILED

IsFailure(status) == status \in { FAILED, CANCELED }

\* _wait_for_task once a status request ended in o after d units of time.
PollStep(s, o, d) ==
    LET t == [s EXCEPT !.elapsed = @ + d, !.statuses = Append(@, o)]
    IN  IF ~o.ok THEN Raise(t, Error("HTTPStatusError", ServerErrorMessage))
        ELSE IF IsSuccess(o.status) THEN GetIssues(t)
        ELSE IF IsFailure(o.status)
        THEN Raise(t, Error("RuntimeError", AnalysisPrefix \o o.status))
        ELSE [t EXCEPT !.pc = "sleep", !.sleeps = @ + 1]

\* _wait_for_task once the sleep ended, d units of time later than asked.
SleepStep(s, d) ==
    WhileWithinTimeout([s EXCEPT !.elapsed = @ + s.poll_interval + d])

\* len(issues) >= total
HaveAllBeyondTotal(issues, total) == Len(issues) > total

HaveAll(issues, total) == Len(issues) >= total

\* get_issues once the request of a page ended in o.
PageStep(s, o) ==
    LET t == [s EXCEPT !.pages = Append(@, o)]
    IN  IF ~o.ok THEN Raise(t, Error("HTTPStatusError", ServerErrorMessage))
        ELSE LET issues ==
                     s.issues \o [k \in 1..Len(o.issues) |-> SonarIssue(o.issues[k])]
             IN  IF HaveAll(issues, o.total)
                 THEN [t EXCEPT !.issues = issues, !.pc = "returned",
                                !.result = Some(SonarReport(issues))]
                 ELSE RequestPage([t EXCEPT !.issues = issues, !.page = @ + 1])

ScannerExit(p) ==
    /\ sonar.pc = "scanner"
    /\ sonar' = ScanStep(sonar, p)
    /\ UNCHANGED << providerVars, sanVars, loop, disk >>

PollResponse(o, d) ==
    /\ sonar.pc = "poll"
    /\ sonar' = PollStep(sonar, o, d)
    /\ UNCHANGED << providerVars, sanVars, loop, disk >>

SleepDone(d) ==
    /\ sonar.pc = "sleep"
    /\ sonar' = SleepStep(sonar, d)
    /\ UNCHANGED << providerVars, sanVars, loop, disk >>

\* The model follows get_issues for MaxPages pages.
PageResponse(o) ==
    /\ sonar.pc = "issues"
    /\ PageStep(sonar, o).pc = "issues" => sonar.page < MaxPages
    /\ sonar' = PageStep(sonar, o)
    /\ UNCHANGED << providerVars, sanVars, loop, disk >>

\* The pages after MaxPages, where the server serves no further issue: the
\* page without issues leaves the local list short of the total, and the
\* loop adds one to page and sends the next request.  Of the page number
\* the model keeps whether it is even or odd beyond MaxPages, and the record
\* of the requests is not continued.
PageResponseBeyond(o) ==
    /\ sonar.pc = "issues"
    /\ sonar.page >= MaxPages
    /\ o.ok /\ o.issues = << >>
    /\ PageStep(sonar, o).pc = "issues"
    /\ sonar' = [sonar EXCEPT !.page = IF @ = MaxPages + 2 THEN MaxPages + 1
                                       ELSE @ + 1]
    /\ UNCHANGED << providerVars, sanVars, loop, disk >>

\* ------------------------------------------------ feedback_loop: texts

\* LINTER_CONFIGS["python"]["linters"]
RuffCheck ==
    << "r", "u", "f", "f", " ", "c", "h", "e", "c", "k", " ", "-", "-",
       "f", "i", "x" >>

RuffFormat ==
    << "r", "u", "f", "f", " ", "f", "o", "r", "m", "a", "t" >>

LinterCommands == << RuffCheck, RuffFormat >>

\* LINTER_CONFIGS["python"]["extensions"]
PyExtension ==
    << ".", "p", "y" >>

\* f"{linter_name} not installed, skipping"
NotInstalledSuffix ==
    << " ", "n", "o", "t", " ", "i", "n", "s", "t", "a", "l", "l", "e",
       "d", ",", " ", "s", "k", "i", "p", "p", "i", "n", "g" >>

\* What a failing ruff prints: a line that names a file and an indented one.
LinterFailOutput ==
    << "s", "r", "c", "/", "a", ".", "p", "y", ":", "1", ":", "1", ":",
       " ", "E", "5", "0", "1", "\n", " ", " ", "x", " ", "=", " ", "1",
       "\n", "F", "o", "u", "n", "d", " ", "1", " ", "e", "r", "r", "o",
       "r", "." >>

BackupSuffix ==
    << ".", "b", "a", "k" >>

\* The files findings are reported in.
PathA ==
    << "s", "r", "c", "/", "a", ".", "p", "y" >>

PathGone ==
    << "g", "o", "n", "e", ".", "p", "y" >>

PathLatin ==
    << "s", "r", "c", "/", "l", "1", ".", "p", "y" >>

ComponentLatin ==
    << "p", "r", "o", "j", ":", "s", "r", "c", "/", "l", "1", ".", "p",
       "y" >>

\* File contents: two texts, and one that is not UTF-8.
ContentA ==
    << "a", "\n", "b" >>

ContentB ==
    << "c" >>

InvalidByte == "0xE9"

ContentLatin == << "n", InvalidByte >>

\* The character ` of a fence.
BackTick == "U+0060"

Fence ==
    << BackTick, BackTick, BackTick >>

\* Contents of model responses.
FencedA ==
    << "F", "i", "x", "e", "d", ":", "\n", BackTick, BackTick, BackTick, "p", "y", "t",
       "h", "o", "n", "\n", "a", "\n", "b", "\n", BackTick, BackTick, BackTick, "\n",
       "D", "o", "n", "e", "." >>

FencedB ==
    << BackTick, BackTick, BackTick, "p", "y", "t", "h", "o", "n", "\n", "c", "\n", BackTick,
       BackTick, BackTick >>

Unfenced ==
    << "c" >>

EmptyFence ==
    << BackTick, BackTick, BackTick, "p", "y", "t", "h", "o", "n", "\n", BackTick, BackTick,
       BackTick >>

\* str() of the exceptions of the fix phase.
DecodeErrorMessage ==
    << "'", "u", "t", "f", "-", "8", "'", " ", "c", "o", "d", "e", "c",
       " ", "c", "a", "n", "'", "t", " ", "d", "e", "c", "o", "d", "e",
       " ", "b", "y", "t", "e", " ", "0", "x", "e", "9", " ", "i", "n",
       " ", "p", "o", "s", "i", "t", "i", "o", "n", " ", "1" >>

AttributeErrorMessage ==
    << "'", "i", "n", "t", "'", " ", "o", "b", "j", "e", "c", "t", " ",
       "h", "a", "s", " ", "n", "o", " ", "a", "t", "t", "r", "i", "b",
       "u", "t", "e", " ", "'", "s", "p", "l", "i", "t", "'" >>

\* ------------------------------------------- feedback_loop: pure functions

StartsWith(s, p) == OccursAt(s, 1, p)

EndsWith(s, p) == Len(s) >= Len(p) /\ OccursAt(s, Len(s) - Len(p) + 1, p)

\* str.strip()
RECURSIVE Strip(_)
Strip(s) ==
    IF s = << >> THEN s
    ELSE IF s[1] \in Whitespace THEN Strip(Tail(s))
    ELSE IF s[Len(s)] \in Whitespace THEN Strip(SubSeq(s, 1, Len(s) - 1))
    ELSE s

\* "\n".join(lines)
RECURSIVE JoinLines(_)
JoinLines(lines) ==
    IF lines = << >> THEN << >>
    ELSE IF Len(lines) = 1 THEN lines[1]
    ELSE lines[1] \o << "\n" >> \o JoinLines(Tail(lines))

\* A loop that does not stop at the fence that closes the block.
RECURSIVE CodeLinesThroughFences(_, _, _, _)
CodeLinesThroughFences(lines, k, in_code_block, code_lines) ==
    IF k > Len(lines) THEN code_lines
    ELSE IF StartsWith(lines[k], Fence)
    THEN CodeLinesThroughFences(lines, k + 1, TRUE, code_lines)
    ELSE IF in_code_block
    THEN CodeLinesThroughFences(lines, k + 1, in_code_block,
                                Append(code_lines, lines[k]))
    ELSE CodeLinesThroughFences(lines, k + 1, in_code_block, code_lines)

\* The loop of _extract_code_from_response over the lines from number k on.
RECURSIVE CodeLines(_, _, _, _)
CodeLines(lines, k, in_code_block, code_lines) ==
    IF k > Len(lines) THEN code_lines
    ELSE IF StartsWith(lines[k], Fence) /\ ~in_code_block
    THEN CodeLines(lines, k + 1, TRUE, code_lines)
    ELSE IF StartsWith(lines[k], Fence) /\ in_code_block THEN code_lines
    ELSE IF in_code_block
    THEN CodeLines(lines, k + 1, in_code_block, Append(code_lines, lines[k]))
    ELSE CodeLines(lines, k + 1, in_code_block, code_lines)

\* _extract_code_from_response(response): the lines of the first fenced
\* block joined, None when there are none.
ExtractCode(response) ==
    LET code_lines == CodeLines(Lines(response), 1, FALSE, << >>)
    IN  IF code_lines # << >> THEN Some(JoinLines(code_lines)) ELSE None

\* full_path.with_suffix(full_path.suffix + ".bak")
BackupPath(path) == path \o BackupSuffix

\* read_text() decodes the bytes of the file.
Decodable(content) == \A k \in DOMAIN content : content[k] # InvalidByte

\* path.write_text(content)
WriteText(d, path, content) ==
    [p \in (DOMAIN d) \cup { path } |-> IF p = path THEN content ELSE d[p]]

LinterResult(linter, passed, output) ==
    [linter |-> linter, passed |-> passed, output |-> output]

\* A LinterResult together with what the linter process ended in, None when
\* no process was started.
Observed(result, process) ==
    [linter |-> result.linter, passed |-> result.passed,
     output |-> result.output, process |-> process]

\* linter_cmd.split()[0]
LinterName(linter_cmd) == Words(linter_cmd, 1, << >>)[1]

\* IterationResult(iteration=iteration_num); requests counts the fix
\* requests sent to the model while the iteration ran.
IterationResult(iteration) ==
    [iteration |-> iteration, linter_results |-> << >>,
     sonar_report |-> None, fixes_applied |-> FALSE, error |-> None,
     requests |-> 0]

\* A passed that takes a missing scan report for a failure.
PassedOnlyWithReport(result) ==
    /\ \A k \in DOMAIN result.linter_results : result.linter_results[k].passed
    /\ result.sonar_report # None
    /\ ReportPassed(result.sonar_report[1])

\* IterationResult.passed
Passed(result) ==
    LET linters_ok ==
            \A k \in DOMAIN result.linter_results :
                result.linter_results[k].passed
        sonar_ok ==
            result.sonar_report = None \/ ReportPassed(result.sonar_report[1])
    IN  linters_ok /\ sonar_ok

\* The loop of _extract_files_from_linter_output over the lines from k on.
RECURSIVE LinterFiles(_, _)
LinterFiles(lines, k) ==
    IF k > Len(lines) THEN {}
    ELSE LET line == lines[k]
             potential_file == Strip(SplitChar(line, ":", 1, << >>)[1])
         IN  IF ~Contains(line, << ":" >>) \/ StartsWith(line, << " " >>)
             THEN LinterFiles(lines, k + 1)
             ELSE IF EndsWith(potential_file, PyExtension)
             THEN { potential_file } \cup LinterFiles(lines, k + 1)
             ELSE LinterFiles(lines, k + 1)

\* _extract_files_from_linter_output(lr)
ExtractFiles(lr) ==
    IF lr.passed \/ lr.output = << >> THEN {}
    ELSE LinterFiles(Lines(lr.output), 1)

\* _get_files_with_issues(linter_results, sonar_report), as a set
FilesWithIssues(linter_results, sonar_report) ==
    (IF sonar_report # None
     THEN { sonar_report[1].issues[k].file : k \in DOMAIN sonar_report[1].issues }
     ELSE {})
    \cup UNION { ExtractFiles(linter_results[k]) : k \in DOMAIN linter_results }

\* list(files): the elements of the set in one of its orders.
ListsOf(S) ==
    { order \in [1..Cardinality(S) -> S] :
          \A a, b \in 1..Cardinality(S) : a # b => order[a] # order[b] }

Max(a, b) == IF a >= b THEN a ELSE b

\* ----------------------------------------------- feedback_loop: the loop

MaxIterations == 4

\* How many findings a scan may report.
FindingCounts == { 0, 6, 10 }

\* The component of the k-th of n findings: the longest report lists two
\* files in turn, a shorter one a third file too.
ComponentOf(n, k) ==
    LET files == IF n >= 10 THEN << ComponentA, ComponentGone >>
                 ELSE << ComponentA, ComponentGone, ComponentLatin >>
    IN  files[((k - 1) % Len(files)) + 1]

\* The issues of a report of n findings.
ReportIssues(n) ==
    [k \in 1..n |-> SonarIssue([component |-> ComponentOf(n, k)])]

\* The exceptions scan_and_wait raises: those of the scanner, of the task
\* status and of the timeout, and the ReadTimeout of a request that took
\* longer than the client's 30 seconds, whose str() is empty.
ScanErrors ==
    { Error("RuntimeError", ScannerFailedPrefix \o OutputWithoutTask),
      Error("RuntimeError", NoTaskIdMessage),
      Error("RuntimeError", AnalysisPrefix \o FAILED),
      Error("TimeoutError", TimeoutPrefix \o Decimal(300) \o << "s" >>),
      Error("ReadTimeout", << >>) }

\* What `await self.sonar.scan_and_wait(...)` ends in.
ScanOutcomes ==
    { [exc |-> None, issues |-> ReportIssues(n)] : n \in FindingCounts }
    \cup { [exc |-> Some(e), issues |-> << >>] : e \in ScanErrors }

\* What a failing scanner prints when it logs the header it sent.
OutputWithSecret ==
    << "a", "u", "t", "h", ":", " " >> \o PrefBearer \o Rep("a", 20)

\* The outcomes of a scan and the failure of a scanner that printed a
\* credential.
ScanOutcomesWithSecret ==
    ScanOutcomes
    \cup { [exc |-> Some(Error("RuntimeError",
                               ScannerFailedPrefix \o OutputWithSecret)),
            issues |-> << >>] }

\* What a linter process ends in: `ruff check --fix` exits with 0, or with 1
\* after printing what it found; `ruff format` rewrites and exits with 0.
LinterOutcomes(linter_cmd) ==
    { [exc |-> None, returncode |-> 0, output |-> << >>] }
    \cup (IF linter_cmd = RuffCheck
          THEN { [exc |-> None, returncode |-> 1, output |-> LinterFailOutput] }
          ELSE {})

\* str() of the OSError of a shell that could not be started in the project
\* directory.
SpawnErrorMessage ==
    << "[", "E", "r", "r", "n", "o", " ", "2", "]" >>

\* What else a linter may end in: the shell could not be started, or the
\* process exited with 0 or 1 after printing bytes that are not UTF-8.
LinterFailures ==
    { [exc |-> Some(Error("OSError", SpawnErrorMessage)), returncode |-> 0,
       output |-> << >>] }
    \cup { [exc |-> None, returncode |-> rc, output |-> << "x", InvalidByte >>] :
               rc \in { 0, 1 } }

\* What `await self.llm.complete(messages)` returns: a failure, or a success
\* whose content has a fenced block, none, an empty one, or is no text.
FixResponses ==
    { Response("ollama", JStr(text), None, None) :
          text \in { FencedA, FencedB, Unfenced, EmptyFence } }
    \cup { Response("ollama", JNum(42), None, None),
           Response("ollama", EmptyText, Some(EmptyResponseError), None) }

\* A FeedbackLoop for the python configuration on which run() has not been
\* called.
\*   which     the linter binaries shutil.which finds
\*   pc        "start", "linter" (awaiting proc.communicate of a linter),
\*             "scan" (awaiting scan_and_wait), "fix" (awaiting
\*             llm.complete), "done" (run() returned)
\*   i         the loop variable of run()
\*   iterations, final_passed, total_issues_fixed
\*             the fields of the FeedbackLoopResult
\*   result    the IterationResult of _run_iteration
\*   results, linter_k
\*             the local results of _run_linters and the linter awaited
\*   todo      the files of files_to_fix not yet handled, the first one
\*             being the file_path of _fix_single_file
\*   original  the local original_content of _fix_single_file
\*   response  the response the last step received from the model
\*   writes    the files the last step wrote, in order
NewLoop(max_iterations, which) ==
    [pc |-> "start", max_iterations |-> max_iterations, which |-> which,
     i |-> 0, iterations |-> << >>, final_passed |-> FALSE,
     total_issues_fixed |-> 0, result |-> IterationResult(0),
     results |-> << >>, linter_k |-> 0, todo |-> << >>, original |-> << >>,
     response |-> None, writes |-> << >>]

\* _run_single_linter for an installed linter whose process ended in o: the
\* try block with stdout.decode(), and the except branch.
RunSingleLinter(linter_cmd, o) ==
    LET linter_name == LinterName(linter_cmd)
    IN  IF o.exc # None
        THEN LinterResult(linter_name, FALSE, o.exc[1].msg)
        ELSE IF ~Decodable(o.output)
        THEN LinterResult(linter_name, FALSE, DecodeErrorMessage)
        ELSE LinterResult(linter_name, o.returncode = 0, o.output)

\* A _run_linters that starts an installed linter and goes on without
\* awaiting its end.
RECURSIVE RunLintersWithoutAwait(_, _)
RunLintersWithoutAwait(l, k) ==
    IF k > Len(LinterCommands)
    THEN [l EXCEPT !.result.linter_results = l.results, !.pc = "scan"]
    ELSE LET linter_name == LinterName(LinterCommands[k])
         IN  IF linter_name \notin l.which
             THEN RunLintersWithoutAwait(
                      [l EXCEPT !.results =
                           Append(@, Observed(
                               LinterResult(linter_name, TRUE,
                                            linter_name \o NotInstalledSuffix),
                               None))],
                      k + 1)
             ELSE RunLintersWithoutAwait([l EXCEPT !.linter_k = k], k + 1)

\* _run_linters from linter number k on, up to the first linter that is
\* installed and has to be awaited; after the last one the results are
\* stored and scan_and_wait is awaited.
RECURSIVE RunLinters(_, _)
RunLinters(l, k) ==
    IF k > Len(LinterCommands)
    THEN [l EXCEPT !.result.linter_results = l.results, !.pc = "scan"]
    ELSE LET linter_name == LinterName(LinterCommands[k])
         IN  IF linter_name \notin l.which
             THEN RunLinters(
                      [l EXCEPT !.results =
                           Append(@, Observed(
                               LinterResult(linter_name, TRUE,
                                            linter_name \o NotInstalledSuffix),
                               None))],
                      k + 1)
             ELSE [l EXCEPT !.pc = "linter", !.linter_k = k]

\* _run_iteration(i) up to its first suspension.
RunIteration(l, i) ==
    RunLinters([l EXCEPT !.i = i, !.result = IterationResult(i),
                         !.results = << >>], 1)

\* The head of the for loop of run(): the next iteration, or the return.
ForNextInclusive(l) ==
    IF l.i <= l.max_iterations THEN RunIteration(l, l.i + 1)
    ELSE [l EXCEPT !.pc = "done"]

ForNext(l) ==
    IF l.i < l.max_iterations THEN RunIteration(l, l.i + 1)
    ELSE [l EXCEPT !.pc = "done"]

\* "Count fixed issues" for the iteration just appended.
CountFixedSigned(l) ==
    LET n == Len(l.iterations)
        iteration == l.iterations[n]
    IN  IF iteration.sonar_report # None
        THEN LET prev_issues ==
                     IF n > 1 /\ l.iterations[n - 1].sonar_report # None
                     THEN l.iterations[n - 1].sonar_report[1].issues
                     ELSE << >>
                 current_issues == iteration.sonar_report[1].issues
             IN  [l EXCEPT !.total_issues_fixed =
                      @ + (Len(prev_issues) - Len(current_issues))]
        ELSE l

CountFixed(l) ==
    LET n == Len(l.iterations)
        iteration == l.iterations[n]
    IN  IF iteration.sonar_report # None
        THEN LET prev_issues ==
                     IF n > 1 /\ l.iterations[n - 1].sonar_report # None
                     THEN l.iterations[n - 1].sonar_report[1].issues
                     ELSE << >>
                 current_issues == iteration.sonar_report[1].issues
             IN  [l EXCEPT !.total_issues_fixed =
                      @ + Max(0, Len(prev_issues) - Len(current_issues))]
        ELSE l

\* `if iteration.error:` the error is set and is not the empty text.
ErrorTruthy(error) == error # None /\ error[1] # << >>

\* The lines format_summary adds for the error of an iteration.
SummaryErrorLines(result) ==
    IF ErrorTruthy(result.error)
    THEN << << " ", " ", "-", " ", "E", "r", "r", "o", "r", ":", " " >>
            \o result.error[1] >>
    ELSE << >>

\* The body of the for loop of run() once _run_iteration returned l.result.
EndIterationCountingFirst(l) ==
    LET appended == CountFixed([l EXCEPT !.iterations = Append(@, l.result)])
    IN  IF Passed(l.result)
        THEN [appended EXCEPT !.final_passed = TRUE, !.pc = "done"]
        ELSE IF ErrorTruthy(l.result.error) THEN [appended EXCEPT !.pc = "done"]
        ELSE ForNext(appended)

EndIteration(l) ==
    LET appended == [l EXCEPT !.iterations = Append(@, l.result)]
    IN  IF Passed(l.result)
        THEN [appended EXCEPT !.final_passed = TRUE, !.pc = "done"]
        ELSE IF ErrorTruthy(l.result.error) THEN [appended EXCEPT !.pc = "done"]
        ELSE ForNext(CountFixed(appended))

\* `except Exception as e: result.error = str(e)` of _run_iteration.
Caught(l, e) == [l EXCEPT !.result.error = Some(e.msg)]

\* The for loop of _apply_llm_fixes from the first file of l.todo on, up to
\* the request _fix_single_file sends for a file that exists; after the last
\* file _apply_llm_fixes returns True and the iteration ends.
RECURSIVE FixFiles(_, _)
FixFiles(l, d) ==
    IF l.todo = << >>
    THEN [l |-> EndIteration([l EXCEPT !.result.fixes_applied = TRUE]),
          d |-> d]
    ELSE LET file_path == Head(l.todo)
         IN  IF file_path \notin DOMAIN d
             THEN FixFiles([l EXCEPT !.todo = Tail(@)], d)
             ELSE IF ~Decodable(d[file_path])
             THEN [l |-> EndIteration(
                             Caught(l, Error("UnicodeDecodeError",
                                             DecodeErrorMessage))),
                   d |-> d]
             ELSE [l |-> [l EXCEPT !.pc = "fix", !.original = d[file_path],
                                   !.result.requests = @ + 1],
                   d |-> d]

\* _apply_llm_fixes with list(files) being files_to_fix.
ApplyLlmFixes(l, d, files_to_fix) ==
    IF files_to_fix = << >>
    THEN [l |-> EndIteration([l EXCEPT !.result.fixes_applied = FALSE]),
          d |-> d]
    ELSE FixFiles([l EXCEPT !.todo = files_to_fix], d)

\* _run_iteration once scan_and_wait ended in o.
AfterScan(l, d, o, files_to_fix) ==
    IF o.exc # None THEN [l |-> EndIteration(Caught(l, o.exc[1])), d |-> d]
    ELSE LET t == [l EXCEPT !.result.sonar_report =
                                Some(SonarReport(o.issues))]
         IN  IF ~Passed(t.result) THEN ApplyLlmFixes(t, d, files_to_fix)
             ELSE [l |-> EndIteration(t), d |-> d]

\* `not response.ok or not response.content`
Unusable(response) == ~Ok(response) \/ ~Truthy(response.content)

\* `not fixed_content or fixed_content == original_content`
NothingToWriteWhenEmpty(fixed_content, original_content) ==
    \/ fixed_content = None
    \/ fixed_content[1] = << >>

NothingToWrite(fixed_content, original_content) ==
    \/ fixed_content = None
    \/ fixed_content[1] = << >>
    \/ fixed_content[1] = original_content

\* "Backup original and write fixed content": the two write_text calls.
FixWritesWithoutBackup(file_path, original_content, fixed_content) ==
    << [path |-> file_path, content |-> fixed_content] >>

FixWrites(file_path, original_content, fixed_content) ==
    << [path |-> BackupPath(file_path), content |-> original_content],
       [path |-> file_path, content |-> fixed_content] >>

\* The files after the writes were done in order.
RECURSIVE ApplyWrites(_, _)
ApplyWrites(d, writes) ==
    IF writes = << >> THEN d
    ELSE ApplyWrites(WriteText(d, writes[1].path, writes[1].content),
                     Tail(writes))

\* _fix_single_file once the model answered with response, and the files
\* that follow.
AfterFix(l, d, response) ==
    LET file_path == Head(l.todo)
        got == [l EXCEPT !.response = Some(response)]
        next == [got EXCEPT !.todo = Tail(@), !.original = << >>]
    IN  IF Unusable(response) THEN FixFiles(next, d)
        ELSE IF response.content.type # "str"
        THEN [l |-> EndIteration(
                        Caught(got, Error("AttributeError",
                                          AttributeErrorMessage))),
              d |-> d]
        ELSE LET fixed_content == ExtractCode(response.content.str)
             IN  IF NothingToWrite(fixed_content, l.original)
                 THEN FixFiles(next, d)
                 ELSE LET writes == FixWrites(file_path, l.original,
                                              fixed_content[1])
                      IN  FixFiles([next EXCEPT !.writes = writes],
                                   ApplyWrites(d, writes))

\* What the last step received and wrote is forgotten by the next step.
Forget(l) == [l EXCEPT !.response = None, !.writes = << >>]

\* run() up to its first suspension.
Run ==
    /\ loop.pc = "start"
    /\ loop' = ForNext(loop)
    /\ UNCHANGED << providerVars, sanVars, sonar, disk >>

\* The linter awaited ended in o: its result is appended and the linters that
\* follow are run.
LinterEnds(o) ==
    /\ LET result == RunSingleLinter(LinterCommands[loop.linter_k], o)
       IN  loop' = RunLinters(
                       [Forget(loop) EXCEPT
                            !.results = Append(@, Observed(result, Some(o)))],
                       loop.linter_k + 1)
    /\ UNCHANGED << providerVars, sanVars, sonar, disk >>

LinterExit ==
    /\ loop.pc = "linter"
    /\ \E o \in LinterOutcomes(LinterCommands[loop.linter_k]) : LinterEnds(o)

\* The same with every way a linter may end.
LinterExitOrFailure ==
    /\ loop.pc = "linter"
    /\ \E o \in LinterOutcomes(LinterCommands[loop.linter_k]) \cup LinterFailures :
           LinterEnds(o)

\* scan_and_wait ended in o: the rest of the iteration up to the request for
\* the first file to fix, or up to the next suspension of run().
ScanDone(o) ==
    /\ loop.pc = "scan"
    /\ \E files_to_fix \in
           ListsOf(FilesWithIssues(loop.result.linter_results,
                                   IF o.exc = None
                                   THEN Some(SonarReport(o.issues))
                                   ELSE None)) :
           LET after == AfterScan(Forget(loop), disk, o, files_to_fix)
           IN  loop' = after.l /\ disk' = after.d
    /\ UNCHANGED << providerVars, sanVars, sonar >>

\* llm.complete returned response: the file is rewritten or left alone, and
\* the loop goes on to its next suspension.
FixDone(response) ==
    /\ loop.pc = "fix"
    /\ LET after == AfterFix(Forget(loop), disk, response)
       IN  loop' = after.l /\ disk' = after.d
    /\ UNCHANGED << providerVars, sanVars, sonar >>

\* run_feedback_loop: the entry point creates the provider in clients[1],
\* hands it to a FeedbackLoop and returns what run() returns.  The provider
\* fetches its pool when _fix_single_file calls complete(); after
\* `return await loop.run()` no statement follows.
EntryAfter(l) ==
    /\ loop' = l
    /\ clients' = IF l.pc = "fix" THEN [clients EXCEPT ![1] = GetClient(@)]
                  ELSE clients
    /\ council_pc' = IF l.pc = "done" THEN "entry returned" ELSE council_pc
    /\ UNCHANGED << finished, returned, sanVars, sonar >>

EntryRun ==
    /\ council_pc = "entry"
    /\ loop.pc = "start"
    /\ EntryAfter(ForNext(loop))
    /\ disk' = disk

EntryLinterExit ==
    /\ council_pc = "entry"
    /\ loop.pc = "linter"
    /\ \E o \in LinterOutcomes(LinterCommands[loop.linter_k]) :
           LET result == RunSingleLinter(LinterCommands[loop.linter_k], o)
           IN  EntryAfter(RunLinters(
                   [Forget(loop) EXCEPT
                        !.results = Append(@, Observed(result, Some(o)))],
                   loop.linter_k + 1))
    /\ disk' = disk

EntryScanDone(o) ==
    /\ council_pc = "entry"
    /\ loop.pc = "scan"
    /\ \E files_to_fix \in
           ListsOf(FilesWithIssues(loop.result.linter_results,
                                   IF o.exc = None
                                   THEN Some(SonarReport(o.issues))
                                   ELSE None)) :
           LET after == AfterScan(Forget(loop), disk, o, files_to_fix)
           IN  EntryAfter(after.l) /\ disk' = after.d

EntryFixDone(response) ==
    /\ council_pc = "entry"
    /\ loop.pc = "fix"
    /\ LET after == AfterFix(Forget(loop), disk, response)
       IN  EntryAfter(after.l) /\ disk' = after.d

\* A call of _extract_code_from_response(response) on its own: the call is
\* entered, and it returns.
ExtractReturns ==
    /\ loop.pc = "extract"
    /\ loop' = [loop EXCEPT !.pc = "extracted",
                            !.fixed_content = ExtractCode(loop.response)]
    /\ UNCHANGED << providerVars, sanVars, sonar, disk >>

\* --------------------------------------------------------- specifications

NoSanitize ==
    san_pc = "off" /\ san_in = << >> /\ san_out = << >> /\ san_again = << >>

\* One provider of any class, with any retry budget, on which complete() is
\* called directly.
\* No scan and no feedback loop are running.
NoQuality == sonar = [pc |-> "off"] /\ loop = [pc |-> "off"] /\ disk = << >>

Init ==
    /\ \E kind \in ProviderKinds, r \in 0..MaxRetries :
           clients = << NewProvider(kind, r) >>
    /\ council_pc = "direct"
    /\ finished = << >>
    /\ returned = None
    /\ NoSanitize
    /\ NoQuality

Next ==
    \/ \E i \in Indices : CompleteStart(i)
    \/ \E i \in Indices : Receive(i, TransportOutcomes)
    \/ \E i \in Indices : Wake(i)
    \/ \E i \in Indices : Close(i)

Spec == Init /\ [][Next]_vars

\* One provider instance on which its owner calls complete() and close() in
\* any order, also while earlier calls have not returned.
InitPool ==
    /\ clients = << PoolInstance >>
    /\ council_pc = "pool"
    /\ finished = << >>
    /\ returned = None
    /\ NoSanitize
    /\ NoQuality

NextPool ==
    \/ \E i \in Indices : PoolComplete(i)
    \/ \E i \in Indices : \E k \in 1..MaxCalls : PoolCompleteEnds(i, k)
    \/ \E i \in Indices : PoolClose(i)
    \/ \E i \in Indices : PoolCloseEnds(i)

SpecPool == InitPool /\ [][NextPool]_vars

\* The providers of a council alternate between an Ollama client with one
\* retry and an OpenAI client with none; either may come first.
CouncilProvider(i, first) ==
    IF (i + first) % 2 = 1 THEN NewProvider("ollama", 1)
    ELSE NewProvider("openai", 0)

InitCouncil ==
    /\ \E n \in 0..MaxClients, first \in { 0, 1 } :
           clients = [i \in 1..n |-> CouncilProvider(i, first)]
    /\ council_pc = "idle"
    /\ finished = << >>
    /\ returned = None
    /\ NoSanitize
    /\ NoQuality

NextCouncil ==
    \/ QueryCouncil
    \/ \E i \in Indices : CompleteStart(i)
    \/ \E i \in Indices : Receive(i, CouncilOutcomes)
    \/ \E i \in Indices : Wake(i)
    \/ GatherResolve

SpecCouncil == InitCouncil /\ [][NextCouncil]_vars

\* One provider of any class is constructed from a configuration with any
\* timeout; no call is made on it.
InitConfig ==
    /\ \E kind \in ProviderKinds, timeout \in ConfiguredTimeouts :
           clients = << PendingInit(kind, 0, timeout) >>
    /\ council_pc = "constructing"
    /\ finished = << >>
    /\ returned = None
    /\ NoSanitize
    /\ NoQuality

NextConfig == \E i \in Indices : Construct(i)

SpecConfig == InitConfig /\ [][NextConfig]_vars

InitSanitize ==
    /\ clients = << >>
    /\ council_pc = "off"
    /\ finished = << >>
    /\ returned = None
    /\ san_pc = "start"
    /\ san_in \in InputTexts
    /\ san_out = << >>
    /\ san_again = << >>
    /\ NoQuality

NextSanitize == Sanitize \/ SanitizeAgain

SpecSanitize == InitSanitize /\ [][NextSanitize]_vars

\* No provider is called.
NoProviders ==
    clients = << >> /\ council_pc = "off" /\ finished = << >> /\ returned = None

\* One call of scan_and_wait with a timeout and a poll interval.
InitSonar ==
    /\ \E timeout \in 0..MaxTimeout, poll_interval \in 1..MaxPollInterval :
           sonar = NewScan(timeout, poll_interval)
    /\ loop = [pc |-> "off"]
    /\ disk = << >>
    /\ NoProviders
    /\ NoSanitize

NextSonar ==
    \/ \E p \in ScannerOutcomes : ScannerExit(p)
    \/ \E o \in PollOutcomes, d \in Latencies : PollResponse(o, d)
    \/ \E d \in Latencies : SleepDone(d)
    \/ \E o \in PageOutcomes : PageResponse(o)

SpecSonar == InitSonar /\ [][NextSonar]_vars

\* Every request of the client ends, with a response or with the error of
\* its 30 second timeout, every sleep ends and the scanner process ends: a
\* call that can take a step takes one.
SpecSonarFair == SpecSonar /\ WF_vars(NextSonar)

\* One call of get_issues on its own, followed for any number of pages.
InitFetch ==
    /\ sonar = GetIssues(NewScan(0, 1))
    /\ loop = [pc |-> "off"]
    /\ disk = << >>
    /\ NoProviders
    /\ NoSanitize

NextFetch ==
    \/ \E o \in PageOutcomes : PageResponse(o)
    \/ \E o \in PageOutcomes : PageResponseBeyond(o)

SpecFetch == InitFetch /\ [][NextFetch]_vars

\* Every request of get_issues ends, with a response or with the error of
\* the client's 30 second timeout.
SpecFetchFair == SpecFetch /\ WF_vars(NextFetch)


\* A FeedbackLoop with a budget of iterations, with or without ruff
\* installed, on a project whose file src/a.py exists, gone.py does not, and
\* src/l1.py is missing or is not UTF-8.
InitLoop ==
    /\ \E max_iterations \in 0..MaxIterations, which \in { {}, { LinterName(RuffCheck) } } :
           loop = NewLoop(max_iterations, which)
    /\ disk \in { PathA :> ContentA,
                  (PathA :> ContentA) @@ (PathLatin :> ContentLatin) }
    /\ sonar = [pc |-> "off"]
    /\ NoProviders
    /\ NoSanitize

NextLoop ==
    \/ Run
    \/ LinterExit
    \/ \E o \in ScanOutcomes : ScanDone(o)
    \/ \E response \in FixResponses : FixDone(response)

SpecLoop == InitLoop /\ [][NextLoop]_vars

\* A loop of few iterations whose linters may also fail to start or print
\* bytes that are not UTF-8, and whose scanner may also print a credential
\* before it fails.
MaxShortIterations == 1

InitIteration ==
    /\ \E max_iterations \in 1..MaxShortIterations,
          which \in { {}, { LinterName(RuffCheck) } } :
           loop = NewLoop(max_iterations, which)
    /\ disk = PathA :> ContentA
    /\ sonar = [pc |-> "off"]
    /\ NoProviders
    /\ NoSanitize

NextIteration ==
    \/ Run
    \/ LinterExitOrFailure
    \/ \E o \in ScanOutcomesWithSecret : ScanDone(o)
    \/ \E response \in FixResponses : FixDone(response)

SpecIteration == InitIteration /\ [][NextIteration]_vars

\* run_feedback_loop after it created the provider and the FeedbackLoop.
MaxEntryIterations == 2

InitEntry ==
    /\ \E kind \in { "anthropic", "openai", "google" } :
           clients = << NewProvider(kind, 0) >>
    /\ council_pc = "entry"
    /\ finished = << >>
    /\ returned = None
    /\ \E max_iterations \in 1..MaxEntryIterations,
          which \in { {}, { LinterName(RuffCheck) } } :
           loop = NewLoop(max_iterations, which)
    /\ disk = PathA :> ContentA
    /\ sonar = [pc |-> "off"]
    /\ NoSanitize

NextEntry ==
    \/ EntryRun
    \/ EntryLinterExit
    \/ \E o \in ScanOutcomes : EntryScanDone(o)
    \/ \E response \in FixResponses : EntryFixDone(response)

SpecEntry == InitEntry /\ [][NextEntry]_vars

\* The responses _extract_code_from_response is called with: up to
\* MaxResponseLines lines, each a line of text, an empty line, a fence with
\* or without a language, or a fence after a blank.
MaxResponseLines == 4

ResponseLines ==
    { << "a" >>, << "b" >>, << >>, Fence, Fence \o << "p", "y" >>,
      << " " >> \o Fence }

ResponseTexts ==
    { JoinLines(lines) :
          lines \in UNION { [1..n -> ResponseLines] : n \in 0..MaxResponseLines } }

InitExtract ==
    /\ \E response \in ResponseTexts :
           loop = [pc |-> "extract", response |-> response,
                   fixed_content |-> None]
    /\ disk = << >>
    /\ sonar = [pc |-> "off"]
    /\ NoProviders
    /\ NoSanitize

NextExtract == ExtractReturns

SpecExtract == InitExtract /\ [][NextExtract]_vars

\* ----------------------------------------------------------------- claims

\* The value a body holds at a path of dict keys and list indices, JNull
\* when the path leaves the body.
RECURSIVE PathValue(_, _, _)
PathValue(data, keys, k) ==
    IF k > Len(keys) THEN data
    ELSE IF data.type = "dict" /\ IsName(keys[k])
              /\ keys[k].name \in DOMAIN data.fields
         THEN PathValue(data.fields[keys[k].name], keys, k + 1)
    ELSE IF data.type = "list" /\ ~IsName(keys[k])
              /\ keys[k].index + 1 \in DOMAIN data.items
         THEN PathValue(data.items[keys[k].index + 1], keys, k + 1)
    ELSE JNull

\* Where each provider's wire format carries the text of the answer.
DocumentedPath(kind) ==
    CASE kind = "openai" -> << K("choices"), I(0), K("message"), K("content") >>
      [] kind = "anthropic" -> << K("content"), I(0), K("text") >>
      [] kind = "google" ->
            << K("candidates"), I(0), K("content"), K("parts"), I(0), K("text") >>
      [] kind = "ollama" -> << K("message"), K("content") >>

DocumentedText(kind, data) == PathValue(data, DocumentedPath(kind), 1)

\* The request ended in a 2xx response.
Http2xx(o) == o.cls = "Response" /\ o.status >= 200 /\ o.status <= 299

\* A 2xx response whose body is JSON and carries text where the provider's
\* wire format puts it.
UsableResponse(kind, o) ==
    /\ Http2xx(o)
    /\ o.body # None
    /\ Truthy(DocumentedText(kind, o.body[1]))

\* A failure the specification calls transient: 429, a connection failure,
\* a read timeout.
Transient(o) ==
    \/ o.cls = "Response" /\ o.status = 429
    \/ o.cls \in { "ConnectError", "ReadTimeout" }

\* A status in [400, 500) other than 429.
ClientErrorStatus(o) ==
    o.cls = "Response" /\ o.status >= 400 /\ o.status < 500 /\ o.status # 429

Last(seq) == seq[Len(seq)]

IsResponse(r) ==
    /\ DOMAIN r = { "provider", "model", "content", "error", "usage" }
    /\ r.provider \in ProviderKinds

\* C1: for every provider class and every outcome of the transport,
\* complete() ends by returning a Response and no exception leaves it; when
\* the last request did not end in a usable response, the Response carries
\* an error.
C1_NeverRaises ==
    \A i \in Indices :
        LET c == clients[i]
        IN  /\ c.pc \in { "start", "request", "sleep", "done" }
            /\ c.raised = None
            /\ c.pc = "done" =>
                 /\ c.result # None
                 /\ IsResponse(c.result[1])
                 /\ c.result[1].provider = c.kind
                 /\ ~UsableResponse(c.kind, Last(c.trace)) =>
                        c.result[1].error # None

\* C1 witness: a Google call that used up a budget of at least one retry on
\* retryable failures, and one that got a 200 whose body is not JSON, both
\* returned as failures.
C1_Witness ==
    \E i \in Indices :
        /\ clients[i].pc = "done"
        /\ clients[i].result # None
        /\ clients[i].result[1].error # None
        /\ clients[i].kind = "google"
        /\ clients[i].max_retries >= 1
        /\ Len(clients[i].trace) = clients[i].max_retries + 1
        /\ Last(clients[i].trace) = HttpResponse(200, None)

\* C2: every returned Response has error None exactly when its content is
\* a non-empty string.
C2_ErrorIffNoContent ==
    \A i \in Indices :
        clients[i].pc = "done" =>
            LET r == clients[i].result[1]
            IN  (r.error = None) <=> (r.content.type = "str" /\ r.content.str # << >>)

\* The provider c after its call met the outcomes of trace from number k on,
\* with no other call running: each request ends in the next outcome, each
\* sleep is slept.
RECURSIVE Alone(_, _, _)
Alone(c, trace, k) ==
    IF c.pc = "start" THEN Alone(StartStep(c), trace, k)
    ELSE IF c.pc = "sleep" THEN Alone(WakeStep(c), trace, k)
    ELSE IF c.pc = "request" /\ k <= Len(trace)
         THEN Alone(ReceiveStep(c, trace[k]), trace, k + 1)
    ELSE c

\* What client i returns when it is called alone and its transport behaves
\* as it did in this dispatch.
ResultAlone(i) ==
    Alone(NewProvider(clients[i].kind, clients[i].max_retries),
          clients[i].trace, 1).result

\* C3: a dispatch never ends in an exception, and when it returns, every
\* position holds a Response, which is the one that client returns when it
\* is called alone with the same transport behaviour, whatever the other
\* clients met.
C3_FailureIsolated ==
    /\ council_pc # "raised"
    /\ council_pc = "returned" =>
         /\ DOMAIN returned[1] = Indices
         /\ \A i \in Indices :
              /\ IsResponse(returned[1][i])
              /\ Some(returned[1][i]) = ResultAlone(i)

\* C3 witness: three clients, the second failed on every attempt, the first
\* and the third returned content.
C3_Witness ==
    /\ council_pc = "returned"
    /\ Len(clients) = 3
    /\ returned[1][2].error # None
    /\ Len(clients[2].trace) = clients[2].max_retries + 1
    /\ \A k \in DOMAIN clients[2].trace : ~Http2xx(clients[2].trace[k])
    /\ returned[1][1].error = None
    /\ returned[1][3].error = None

\* C4: the returned list is as long as the providers list and position i
\* holds the Response of provider i, in whatever order the calls ended; with
\* no provider the empty list is returned at once.
C4_SameLengthAndOrder ==
    /\ council_pc = "returned" =>
         /\ Len(returned[1]) = Len(clients)
         /\ \A i \in Indices :
              /\ returned[1][i] = clients[i].result[1]
              /\ returned[1][i].provider = clients[i].kind
    /\ (clients = << >> /\ council_pc # "idle") =>
         (council_pc = "returned" /\ returned = Some(<< >>))

\* C4 witness: three providers of two classes, with three different
\* results, whose calls ended in the reverse of the input order.
C4_Witness ==
    /\ council_pc = "returned"
    /\ Len(clients) = 3
    /\ finished = << 3, 2, 1 >>
    /\ clients[1].kind # clients[2].kind
    /\ returned[1][1] # returned[1][2]
    /\ returned[1][1] # returned[1][3]

\* C4 witness of the empty dispatch.
C4_WitnessEmpty == clients = << >> /\ council_pc = "returned"

\* C5: a call issues at most max_retries + 1 requests; when every request
\* failed with a transient failure, exactly max_retries + 1 were issued and
\* the exception the caller of _request_with_retry gets is that of the last
\* request.
C5_AttemptBudget ==
    \A i \in Indices :
        LET c == clients[i]
        IN  /\ c.sent <= c.max_retries + 1
            /\ Len(c.trace) <= c.sent
            /\ (c.pc = "done" /\ \A k \in DOMAIN c.trace : Transient(c.trace[k])) =>
                 /\ c.sent = c.max_retries + 1
                 /\ Len(c.trace) = c.max_retries + 1
                 /\ c.caught = Some(ExcOf(Last(c.trace)))
                 /\ c.last_error = Some(ExcOf(Last(c.trace)))

\* C5 witness: a budget of two retries used up on three transient failures,
\* the last of them different from the first.
C5_Witness ==
    \E i \in Indices :
        /\ clients[i].pc = "done"
        /\ clients[i].max_retries = 2
        /\ clients[i].sent = 3
        /\ \A k \in DOMAIN clients[i].trace : Transient(clients[i].trace[k])
        /\ clients[i].trace[1] # clients[i].trace[3]
        /\ clients[i].caught = Some(ExcOf(clients[i].trace[3]))

\* C6: a request answered with a status in [400, 500) other than 429 is the
\* last one of the call: the call is over, nothing was sent and no delay
\* was slept after it, and the error returned is that status error; a 404 to
\* the first request leaves exactly one request sent.
C6_ClientErrorNotRetried ==
    \A i \in Indices :
        LET c == clients[i]
        IN  \A k \in DOMAIN c.trace :
                ClientErrorStatus(c.trace[k]) =>
                    /\ k = Len(c.trace)
                    /\ c.sent = k
                    /\ Len(c.sleeps) = k - 1
                    /\ c.pc = "done"
                    /\ c.caught = Some(Exc("HTTPStatusError", c.trace[k].status))

\* C6 witness: a 404 to the first request of a call with two retries left,
\* and a 400 likewise.
C6_Witness ==
    \E i \in Indices :
        /\ clients[i].max_retries = 2
        /\ clients[i].trace \in { << HttpResponse(404, None) >>, << HttpResponse(400, None) >> }
        /\ clients[i].sent = 1
        /\ clients[i].sleeps = << >>
        /\ clients[i].pc = "done"

\* C7: a call whose first max_retries >= 1 requests failed transiently and whose
\* next request got a usable response returns a successful Response after
\* exactly max_retries delays, the delay slept after the failure of attempt
\* k (counted from 0) being 2^k + 0.5 s, that is 2 * 2^k + 1 half seconds.
C7_SucceedsAfterRetries ==
    \A i \in Indices :
        LET c == clients[i]
        IN  ( /\ c.pc = "done"
              /\ c.max_retries >= 1
              /\ Len(c.trace) = c.max_retries + 1
              /\ \A k \in 1..c.max_retries : Transient(c.trace[k])
              /\ UsableResponse(c.kind, Last(c.trace)) ) =>
                 /\ c.result[1].error = None
                 /\ Len(c.sleeps) = c.max_retries
                 /\ \A k \in 1..c.max_retries : c.sleeps[k] = 2 * (2 ^ (k - 1)) + 1

\* The retry half of C7 alone: after max_retries transient failures and a
\* 2xx response, max_retries + 1 requests were sent and max_retries delays
\* of 2^k + 0.5 s slept.
RetryDelaysAsStated ==
    \A i \in Indices :
        LET c == clients[i]
        IN  ( /\ c.pc = "done"
              /\ Len(c.trace) = c.max_retries + 1
              /\ \A k \in 1..c.max_retries : Transient(c.trace[k])
              /\ Http2xx(Last(c.trace)) ) =>
                 /\ c.sent = c.max_retries + 1
                 /\ Len(c.sleeps) = c.max_retries
                 /\ \A k \in 1..c.max_retries : c.sleeps[k] = 2 * (2 ^ (k - 1)) + 1

\* The matches of the patterns in a text: << k, i >> when pattern k matches
\* at position i.
MatchesIn(s) ==
    { m \in (1..Len(SANITIZE_PATTERNS)) \X (1..Len(s)) :
        MatchLen(SANITIZE_PATTERNS[m[1]], s, m[2]) > 0 }

\* The key of a match: the characters the pattern matched after its prefix.
SecretOf(s, m) ==
    SubSeq(s, m[2] + Len(SANITIZE_PATTERNS[m[1]].prefix),
           m[2] + MatchLen(SANITIZE_PATTERNS[m[1]], s, m[2]) - 1)

\* Every replacement starts with, or holds, ***REDACTED.
HasMarker(s) == Contains(s, Star3 \o Redacted)

\* C8: for a text in which a pattern matches, the output of sanitize_error
\* holds the key of none of the matches and holds the redaction marker, and
\* sanitize_error leaves its own output unchanged.
C8_RedactsEveryKey ==
    (san_pc = "twice" /\ MatchesIn(san_in) # {}) =>
        /\ \A m \in MatchesIn(san_in) : ~Contains(san_out, SecretOf(san_in, m))
        /\ HasMarker(san_out)
        /\ san_again = san_out

\* The parts of C8 that do not depend on which keys are gone: the marker is
\* there and a second pass changes nothing.
MarkedAndIdempotent ==
    san_pc = "twice" =>
        /\ MatchesIn(san_in) # {} => HasMarker(san_out)
        /\ san_again = san_out

\* The text a finished call emitted without redaction would be: the text of
\* the exception its except branch handled, or the fixed message of the
\* empty-response branch.
UnredactedText(c) ==
    IF c.caught # None THEN StrOf(c.caught[1], c.kind) ELSE EmptyResponseError

\* The error texts a call made visible: those it logged and the one in the
\* error field of the Response it returned.
VisibleTexts(c) ==
    { c.logged[k] : k \in DOMAIN c.logged }
    \cup (IF c.result # None /\ c.result[1].error # None
          THEN { c.result[1].error[1] } ELSE {})

\* C9: every error text a call logs or returns is the output of the
\* redaction filter on the text of its failure, for every provider class:
\* it is sanitize_error of the unredacted text, the filter finds nothing
\* more to redact in it, and it does not hold the API key; an exception is
\* logged exactly when it is returned.
C9_ErrorsAreRedacted ==
    \A i \in Indices :
        LET c == clients[i]
        IN  /\ \A t \in VisibleTexts(c) :
                 /\ t = sanitize_error(UnredactedText(c))
                 /\ sanitize_error(t) = t
                 /\ ~Contains(t, GoogleApiKey)
            /\ (c.pc = "done" /\ c.caught # None) =>
                 c.logged = << c.result[1].error[1] >>

\* C9 witness: a Google call answered with a status error, whose text
\* quotes the URL with the API key, returned and logged with the marker.
C9_Witness ==
    \E i \in Indices :
        /\ clients[i].pc = "done"
        /\ clients[i].kind = "google"
        /\ clients[i].caught # None
        /\ clients[i].caught[1].cls = "HTTPStatusError"
        /\ Contains(StrOf(clients[i].caught[1], "google"), GoogleApiKey)
        /\ HasMarker(clients[i].result[1].error[1])
        /\ clients[i].logged = << clients[i].result[1].error[1] >>

\* A 2xx response from which no text can be had: its body is not JSON, or
\* holds nothing where the provider's wire format puts the text.
NoUsableText(kind, o) ==
    /\ Http2xx(o)
    /\ (o.body = None \/ ~Truthy(DocumentedText(kind, o.body[1])))

LastIteration == loop.iterations[Len(loop.iterations)]

\* Some iteration recorded so far passed.
SomePassed == \E k \in DOMAIN loop.iterations : Passed(loop.iterations[k])

\* Some iteration recorded so far made run() leave the loop on its error.
SomeErrorBreak ==
    \E k \in DOMAIN loop.iterations : ErrorTruthy(loop.iterations[k].error)

\* C11: the iterations list is never longer than max_iterations, and when
\* run() returned because the budget was used up, no iteration having passed
\* or ended the loop with its error, final_passed is false and the list has
\* exactly max_iterations entries.
C11_BudgetExhaustion ==
    /\ Len(loop.iterations) <= loop.max_iterations
    /\ loop.i <= loop.max_iterations
    /\ (loop.pc = "done" /\ ~SomePassed /\ ~SomeErrorBreak) =>
           /\ loop.final_passed = FALSE
           /\ Len(loop.iterations) = loop.max_iterations

\* C11 witness: a budget of three iterations used up by three iterations
\* with findings.
C11_Witness ==
    /\ loop.pc = "done"
    /\ loop.max_iterations = 3
    /\ Len(loop.iterations) = 3
    /\ ~SomePassed
    /\ ~SomeErrorBreak
    /\ \A k \in 1..3 : loop.iterations[k].sonar_report # None

\* C12: when scan_and_wait raised in an iteration, the exception is in the
\* error field of that iteration, the iteration is the last entry of the
\* list, run() has returned and no fix request was sent in the iteration.
C12_ScanErrorEndsLoop ==
    \A k \in DOMAIN loop.iterations :
        loop.iterations[k].sonar_report = None =>
            /\ loop.iterations[k].error # None
            /\ loop.iterations[k].requests = 0
            /\ k = Len(loop.iterations)
            /\ loop.pc = "done"

\* How many findings the report of iteration k holds.
FindingCount(k) == Len(loop.iterations[k].sonar_report[1].issues)

\* The finding counts of the iterations, when each has a report.
ExampleCounts ==
    /\ Len(loop.iterations) = 4
    /\ \A k \in 1..4 : loop.iterations[k].sonar_report # None
    /\ << FindingCount(1), FindingCount(2), FindingCount(3), FindingCount(4) >>
           = << 10, 6, 6, 0 >>

\* max(0, previous finding count - current finding count) for iteration k.
Drop(k) ==
    IF FindingCount(k - 1) > FindingCount(k)
    THEN FindingCount(k - 1) - FindingCount(k)
    ELSE 0

\* Iteration k did not pass, has a report, and so has its predecessor.
HasReports(k) ==
    /\ k > 1
    /\ ~Passed(loop.iterations[k])
    /\ loop.iterations[k].sonar_report # None
    /\ loop.iterations[k - 1].sonar_report # None

\* The sum of the drops of the iterations 1..n that did not pass and have
\* reports.
RECURSIVE SumOfDrops(_)
SumOfDrops(n) ==
    IF n = 0 THEN 0
    ELSE SumOfDrops(n - 1) + (IF HasReports(n) THEN Drop(n) ELSE 0)

\* The same sum over the iterations that, besides, did not end the loop with
\* an error: the error field is unset or the empty text.
RECURSIVE SumOfDropsWithoutError(_)
SumOfDropsWithoutError(n) ==
    IF n = 0 THEN 0
    ELSE SumOfDropsWithoutError(n - 1)
         + (IF HasReports(n) /\ loop.iterations[n].error \in { None, Some(<< >>) }
            THEN Drop(n) ELSE 0)

\* For the finding counts 10, 6, 6, 0 with iteration 4 passing the total is 4.
ExampleTotal ==
    (ExampleCounts /\ Passed(loop.iterations[4])) =>
        loop.total_issues_fixed = 4

\* C13 as stated: total_issues_fixed is the sum, over every non-passing
\* iteration that has a report and a predecessor with a report, of
\* max(0, previous count - current count); it is never negative; the counts
\* 10, 6, 6, 0 give 4.
C13_TotalIsSumOfDrops ==
    /\ loop.total_issues_fixed = SumOfDrops(Len(loop.iterations))
    /\ loop.total_issues_fixed >= 0
    /\ ExampleTotal

\* C13 amended: the sum runs over the non-passing iterations that have a
\* report, a predecessor with a report, and did not end the loop with an
\* error; an iteration whose fix phase raised ends the loop before its drop
\* is counted.
C13_TotalIsSumOfDropsWithoutError ==
    /\ loop.total_issues_fixed = SumOfDropsWithoutError(Len(loop.iterations))
    /\ loop.total_issues_fixed >= 0
    /\ ExampleTotal

\* C13 witness: the counts 10, 6, 6, 0 with iteration 4 passing.
C13_Witness ==
    /\ loop.pc = "done"
    /\ ExampleCounts
    /\ loop.final_passed
    /\ loop.total_issues_fixed = 4

\* C14: a passing iteration is recorded as the last entry, final_passed is
\* true and run() has returned, no fix request was sent in it, and the step
\* that records a passing iteration leaves total_issues_fixed as it was.
C14_PassingIterationStops ==
    /\ [](\A k \in DOMAIN loop.iterations :
              Passed(loop.iterations[k]) =>
                  /\ k = Len(loop.iterations)
                  /\ loop.pc = "done"
                  /\ loop.final_passed
                  /\ loop.iterations[k].requests = 0
                  /\ ~loop.iterations[k].fixes_applied)
    /\ [][(/\ Len(loop'.iterations) = Len(loop.iterations) + 1
           /\ Passed(loop'.iterations[Len(loop'.iterations)])) =>
              loop'.total_issues_fixed = loop.total_issues_fixed]_vars

\* C14 witness: the counts 10, 6, 0: the third iteration passed with no
\* finding left and the total is that of the first two.
C14_Witness ==
    /\ loop.pc = "done"
    /\ loop.final_passed
    /\ Len(loop.iterations) = 3
    /\ \A k \in 1..3 : loop.iterations[k].sonar_report # None
    /\ << FindingCount(1), FindingCount(2), FindingCount(3) >> = << 10, 6, 0 >>
    /\ loop.total_issues_fixed = 4

\* The first line from number k on that begins with a fence, 0 if none does.
RECURSIVE FenceFrom(_, _)
FenceFrom(lines, k) ==
    IF k > Len(lines) THEN 0
    ELSE IF StartsWith(lines[k], Fence) THEN k
    ELSE FenceFrom(lines, k + 1)

\* The fenced block of a text as its reader sees it: what stands between the
\* first fence line and the next one, or the end; None without a fence line.
FencedBlock(text) ==
    LET lines == Lines(text)
        open == FenceFrom(lines, 1)
        close == FenceFrom(lines, open + 1)
        last == IF close = 0 THEN Len(lines) ELSE close - 1
    IN  IF open = 0 THEN None
        ELSE Some(JoinLines(SubSeq(lines, open + 1, last)))

\* The step in which _fix_single_file receives the answer of the model.
FixAnswered == loop.pc = "fix" /\ loop'.response # None

\* The answer is a success whose fenced block differs from what the file
\* holds.
DiffersFromFile ==
    LET r == loop'.response[1]
    IN  /\ Ok(r)
        /\ r.content.type = "str"
        /\ FencedBlock(r.content.str) # None
        /\ FencedBlock(r.content.str)[1] # disk[Head(loop.todo)]

\* The step wrote what the file held to file + ".bak" and then the block to
\* the file, and nothing else.
BackedUpThenOverwritten ==
    LET file_path == Head(loop.todo)
        backup_path == file_path \o BackupSuffix
        block == FencedBlock(loop'.response[1].content.str)[1]
    IN  /\ loop'.writes =
               << [path |-> backup_path, content |-> disk[file_path]],
                  [path |-> file_path, content |-> block] >>
        /\ DOMAIN disk' = (DOMAIN disk) \cup { backup_path }
        /\ disk'[file_path] = block
        /\ disk'[backup_path] = disk[file_path]
        /\ \A p \in DOMAIN disk :
               p \notin { file_path, backup_path } => disk'[p] = disk[p]

\* C15 as stated: when the answer is a success whose fenced block differs
\* from the content of the file, that content is written to the backup file
\* before the file is overwritten, and afterwards the file holds the block
\* and the backup what the file held just before.
C15_BackupThenOverwrite ==
    [][(FixAnswered /\ DiffersFromFile) => BackedUpThenOverwritten]_vars

\* C15 amended: the same for a fenced block that is not empty; an empty
\* block is taken as no block: no file is written.
C15_BackupThenOverwriteNonEmpty ==
    [][(FixAnswered /\ DiffersFromFile) =>
           IF FencedBlock(loop'.response[1].content.str)[1] # << >>
           THEN BackedUpThenOverwritten
           ELSE disk' = disk /\ loop'.writes = << >>]_vars

\* C15 witness: the second overwrite of src/a.py: the file holds the block of
\* the answer and the backup what the file held before this overwrite, not
\* what it held at first.
C15_Witness ==
    /\ loop.response = Some(Response("ollama", JStr(FencedA), None, None))
    /\ Len(loop.writes) = 2
    /\ disk[PathA] = ContentA
    /\ disk[PathA \o BackupSuffix] = ContentB

\* C16: an answer that is a failure, or has no fenced block, or whose fenced
\* block is what the file holds, leaves every file as it was and writes no
\* backup.
C16_NoWriteWithoutNewBlock ==
    [][(/\ FixAnswered
        /\ LET r == loop'.response[1]
           IN  \/ ~Ok(r)
               \/ r.content.type # "str"
               \/ FencedBlock(r.content.str) = None
               \/ FencedBlock(r.content.str) = Some(disk[Head(loop.todo)])) =>
           (disk' = disk /\ loop'.writes = << >>)]_vars

\* C16 witness: the answer repeated the content of src/a.py in its fenced
\* block; there is the file and no backup.
C16_Witness ==
    /\ loop.response = Some(Response("ollama", JStr(FencedA), None, None))
    /\ loop.writes = << >>
    /\ disk[PathA] = ContentA
    /\ PathA \o BackupSuffix \notin DOMAIN disk

\* ------------------------------------------------- claims: scanner client

\* A status request that was answered with a status that ends no polling.
NonTerminalCheck(o) == o.ok /\ o.status \notin { SUCCESS, FAILED, CANCELED }

Reported(status) == [ok |-> TRUE, status |-> status]

\* The TimeoutError of _wait_for_task.
TimeoutRaised ==
    /\ sonar.pc = "raised"
    /\ sonar.raised[1] =
           Error("TimeoutError",
                 TimeoutPrefix \o Decimal(sonar.timeout) \o << "s" >>)

\* _wait_for_task returned: get_issues has begun.
WaitReturned ==
    /\ sonar.page >= 1
    /\ sonar.pc \in { "issues", "returned", "raised" }
    /\ sonar.pc = "raised" => sonar.raised[1].cls = "HTTPStatusError"

\* C17: in _wait_for_task a check that reports SUCCESS ends polling with a
\* normal return; one that reports FAILED or CANCELED raises at once; any
\* other status is followed by a sleep and, while the elapsed time is below
\* the timeout, by another check; no check is issued after a terminal status.
C17_PollingProtocol ==
    sonar.process # None =>
        LET n == Len(sonar.statuses)
        IN  /\ \A k \in 1..(n - 1) : NonTerminalCheck(sonar.statuses[k])
            /\ sonar.checks = n + (IF sonar.pc = "poll" THEN 1 ELSE 0)
            /\ (n > 0 /\ sonar.statuses[n] = Reported(SUCCESS)) => WaitReturned
            /\ (n > 0 /\ sonar.statuses[n] \in { Reported(FAILED), Reported(CANCELED) }) =>
                   /\ sonar.pc = "raised"
                   /\ sonar.raised[1] =
                          Error("RuntimeError",
                                AnalysisPrefix \o sonar.statuses[n].status)
                   /\ sonar.page = 0
            /\ (n > 0 /\ NonTerminalCheck(sonar.statuses[n])) =>
                   /\ sonar.sleeps = n
                   /\ \/ sonar.pc = "sleep"
                      \/ sonar.pc = "poll" /\ sonar.elapsed < sonar.timeout
                      \/ TimeoutRaised /\ sonar.elapsed >= sonar.timeout

\* C17 witness: PENDING, then a status the client does not know, then
\* CANCELED, which raised.
C17_Witness ==
    /\ sonar.pc = "raised"
    /\ sonar.statuses = << Reported(PENDING), Reported(QUEUED), Reported(CANCELED) >>
    /\ sonar.checks = 3

\* C18: when a task reports a non-terminal status n times and then SUCCESS,
\* _wait_for_task returns normally after exactly n + 1 status checks and n
\* sleeps, and it never gives up while the elapsed time is below the timeout.
C18_ChecksUntilSuccess ==
    sonar.process # None =>
        LET n == Len(sonar.statuses)
        IN  /\ (n > 0 /\ sonar.statuses[n] = Reported(SUCCESS)) =>
                   /\ \A k \in 1..(n - 1) : NonTerminalCheck(sonar.statuses[k])
                   /\ sonar.checks = n
                   /\ sonar.sleeps = n - 1
                   /\ WaitReturned
            /\ TimeoutRaised => sonar.elapsed >= sonar.timeout

\* C18 witness: PENDING three times, then SUCCESS: four status checks.
C18_Witness ==
    /\ sonar.pc = "issues"
    /\ sonar.statuses =
           << Reported(PENDING), Reported(PENDING), Reported(PENDING),
              Reported(SUCCESS) >>
    /\ sonar.checks = 4

\* Every status check so far was answered PENDING.
OnlyPending ==
    \A k \in DOMAIN sonar.statuses : sonar.statuses[k] = Reported(PENDING)

\* While the task stays PENDING no check is issued once the elapsed time
\* reached the timeout, the checks are bounded by the timeout, and the only
\* way out is the TimeoutError.
PendingIsBounded ==
    (sonar.task_id # None /\ OnlyPending) =>
        /\ sonar.pc \in { "poll", "sleep", "raised" }
        /\ sonar.pc = "poll" => sonar.elapsed < sonar.timeout
        /\ sonar.checks > 0 =>
               (sonar.checks - 1) * sonar.poll_interval < sonar.timeout
        /\ sonar.pc = "raised" =>
               TimeoutRaised /\ sonar.elapsed >= sonar.timeout

\* C19: for a task that never leaves PENDING, _wait_for_task does not poll
\* for ever: it issues no status check once the elapsed time reached the
\* timeout, and it ends by raising the TimeoutError.
C19_PendingEndsInTimeout ==
    /\ []PendingIsBounded
    /\ <>(\/ sonar.pc = "raised" /\ sonar.task_id = None
          \/ ~OnlyPending
          \/ TimeoutRaised)

\* C19 witness: three checks answered PENDING, then the TimeoutError.
C19_Witness ==
    /\ TimeoutRaised
    /\ OnlyPending
    /\ sonar.checks = 3
    /\ sonar.sleeps = 3

\* No status was polled and no findings were fetched.
NothingPolledOrFetched ==
    /\ sonar.checks = 0
    /\ sonar.statuses = << >>
    /\ sonar.sleeps = 0
    /\ sonar.page = 0
    /\ sonar.issues = << >>
    /\ sonar.result = None

C20_WitnessNoTask ==
    /\ sonar.process = Some([started |-> TRUE, returncode |-> 0,
                             output |-> OutputWithoutTask])
    /\ sonar.pc = "raised"

\* --------------------------------------------------- claims: get_issues

\* The findings of the first n pages received, in page order.
RECURSIVE Accumulated(_)
Accumulated(n) ==
    IF n = 0 THEN << >>
    ELSE Accumulated(n - 1)
         \o [k \in 1..Len(sonar.pages[n].issues) |->
                 SonarIssue(sonar.pages[n].issues[k])]

InGetIssues == sonar.requests # << >>

\* C21: get_issues requests pages 1, 2, 3, ... of the fixed page size in
\* order, one at a time; every page that was followed by another request
\* left the accumulated count below the total it reported; the local list
\* holds every issue of every page received, in page order; and get_issues
\* returns exactly on the first page whose accumulated count reaches the
\* total it reported, with a report of all those findings.
C21_PagesUntilTotal ==
    InGetIssues =>
        LET n == Len(sonar.pages)
        IN  /\ \A k \in 1..Len(sonar.requests) :
                sonar.requests[k] = [p |-> k, ps |-> page_size]
            /\ Len(sonar.requests) = n + (IF sonar.pc = "issues" THEN 1 ELSE 0)
            /\ \A k \in 1..(Len(sonar.requests) - 1) :
                /\ sonar.pages[k].ok
                /\ Len(Accumulated(k)) < sonar.pages[k].total
            /\ sonar.pc = "issues" => sonar.issues = Accumulated(n)
            /\ sonar.pc = "returned" <=>
                   /\ n > 0
                   /\ sonar.pages[n].ok
                   /\ Len(Accumulated(n)) >= sonar.pages[n].total
            /\ sonar.pc = "returned" =>
                   sonar.result = Some(SonarReport(Accumulated(n)))

\* Two pages were fetched, each with findings, and the second reached the
\* total.
C21_Witness ==
    /\ sonar.pc = "returned"
    /\ Len(sonar.pages) = 2
    /\ sonar.pages[1].issues # << >>
    /\ sonar.pages[2].issues # << >>
    /\ Len(sonar.result[1].issues) = sonar.pages[2].total
    /\ sonar.requests = << [p |-> 1, ps |-> page_size], [p |-> 2, ps |-> page_size] >>

\* ------------------------------------------------ claims: query_council

Resolved(i) == clients[i].pc \in { "done", "raised" }

\* C22: while query_council awaits, the call of every client that has not
\* started can start whatever the other calls are doing; query_council has
\* not returned while any call is unresolved, whether other calls already
\* failed or succeeded; and when it returns every one of the N calls has
\* resolved and has its result in the list.
C22_AllIssuedAllAwaited ==
    /\ council_pc = "gathering" =>
           \A i \in Indices :
               clients[i].pc = "start" => ENABLED CompleteStart(i)
    /\ (\E i \in Indices : ~Resolved(i)) => council_pc \in { "idle", "gathering" }
    /\ council_pc = "returned" =>
           /\ \A i \in Indices : clients[i].pc = "done"
           /\ Len(returned[1]) = Len(clients)

\* Of three clients one has failed, one has succeeded and one is still
\* between two attempts, and query_council is still awaiting.
C22_Witness ==
    /\ council_pc = "gathering"
    /\ Len(clients) = 3
    /\ \E i, j, k \in Indices :
           /\ clients[i].pc = "done" /\ clients[i].result[1].error # None
           /\ clients[j].pc = "done" /\ clients[j].result[1].error = None
           /\ clients[k].pc = "sleep"

\* Every call of a council of three is in flight at once.
C22_WitnessAllInFlight ==
    /\ council_pc = "gathering"
    /\ Len(clients) = 3
    /\ \A i \in Indices : clients[i].pc = "request" /\ clients[i].trace = << >>

\* C23: no step of query_council (its start, its return) changes the pool of
\* any client, and when it has returned every client's pool is as its own
\* complete() left it, which is open, whether that call failed or succeeded.
C23_DispatcherNeverCloses ==
    /\ [][council_pc' # council_pc =>
              /\ Len(clients') = Len(clients)
              /\ \A i \in Indices : clients'[i].client = clients[i].client]_vars
    /\ [](council_pc = "returned" =>
              \A i \in Indices : clients[i].client = "open")

\* query_council returned for two clients, one failed and one succeeded,
\* and both pools are open.
C23_Witness ==
    /\ council_pc = "returned"
    /\ Len(clients) = 2
    /\ \E i, j \in Indices :
           /\ returned[1][i].error # None
           /\ returned[1][j].error = None
    /\ \A i \in Indices : clients[i].client = "open"

\* ----------------------------------------------- claims: BaseProvider

Constructed == clients # << >> /\ clients[1].pc = "start"

\* The timeout the configuration of the constructed provider named, in half
\* seconds, when it named one.
Configured == clients[1].configured

\* C24 as stated: the effective timeout is at most 300 s; it equals the
\* configured value when that is at most 300 s and 300 s otherwise.
C24_TimeoutClamped ==
    (Constructed /\ Configured # None) =>
        /\ clients[1].timeout <= 300
        /\ Configured[1] <= 2 * 300 => 2 * clients[1].timeout = Configured[1]
        /\ Configured[1] > 2 * 300 => clients[1].timeout = 300

\* C24 amended: the effective timeout is at most 300 s; it is the whole
\* seconds of the configured value, the fraction dropped, when that value is
\* at most 300 s, and 300 s otherwise; without a configured value it is 60 s.
C24_TimeoutTruncatedAndClamped ==
    Constructed =>
        /\ clients[1].timeout <= 300
        /\ Configured = None => clients[1].timeout = 60
        /\ Configured # None =>
               LET h == Configured[1]
                   t == clients[1].timeout
               IN  /\ h <= 2 * 300 => (2 * t <= h /\ h < 2 * t + 2)
                   /\ h > 2 * 300 => t = 300

\* A provider was constructed with a configured timeout above the ceiling.
C24_Witness ==
    /\ Constructed
    /\ Configured # None
    /\ Configured[1] > 2 * 300
    /\ clients[1].timeout = 300

\* ---------------------------------------------------- claims: linters

\* The linter of LinterCommands[k] is found by shutil.which.
Installed(k) == LinterName(LinterCommands[k]) \in loop.which

\* The process of a linter result ran to its end and exited with 0.
ExitedWithZero(r) ==
    r.process # None /\ r.process[1].exc = None /\ r.process[1].returncode = 0

\* C25: every iteration has exactly one LinterResult per configured linter
\* command, in configured order; no process is awaited for a linter that is
\* not installed, whose result is recorded as passed, so that it cannot make
\* the iteration fail; and the result of an installed linter is passed
\* exactly when its process exited with code 0.
C25_OneResultPerLinter ==
    /\ loop.pc = "linter" => Installed(loop.linter_k)
    /\ \A n \in DOMAIN loop.iterations :
           LET rs == loop.iterations[n].linter_results
           IN  /\ Len(rs) = Len(LinterCommands)
               /\ \A k \in DOMAIN rs :
                      /\ rs[k].linter = LinterName(LinterCommands[k])
                      /\ IF Installed(k)
                         THEN rs[k].process # None
                              /\ (rs[k].passed <=> ExitedWithZero(rs[k]))
                         ELSE rs[k].process = None /\ rs[k].passed
               /\ (\A k \in DOMAIN rs : ~Installed(k)) =>
                      (Passed(loop.iterations[n]) <=>
                           \/ loop.iterations[n].sonar_report = None
                           \/ ReportPassed(loop.iterations[n].sonar_report[1]))

\* The same where every process that ran printed UTF-8.
C25_OneResultPerLinterDecodable ==
    (\A n \in DOMAIN loop.iterations :
         \A k \in DOMAIN loop.iterations[n].linter_results :
             LET r == loop.iterations[n].linter_results[k]
             IN  r.process # None => Decodable(r.process[1].output))
        => C25_OneResultPerLinter

\* ------------------------------------------- claims: errors of the loop

\* No pattern of the redaction filter matches in s, which the filter leaves
\* as it is.
HoldsNoSecret(s) == MatchesIn(s) = {} /\ sanitize_error(s) = s

\* C26: the error recorded in the error field of every iteration, and every
\* line the summary shows for it, holds nothing the redaction filter would
\* redact.
C26_LoopErrorRedacted ==
    \A n \in DOMAIN loop.iterations :
        /\ loop.iterations[n].error # None =>
               HoldsNoSecret(loop.iterations[n].error[1])
        /\ \A k \in DOMAIN SummaryErrorLines(loop.iterations[n]) :
               HoldsNoSecret(SummaryErrorLines(loop.iterations[n])[k])

\* ------------------------------------------- claims: passed iterations

AllLintersPassed(it) ==
    \A k \in DOMAIN it.linter_results : it.linter_results[k].passed

NoFindings(it) ==
    it.sonar_report = None \/ Len(it.sonar_report[1].issues) = 0

\* C27: an iteration is passed exactly when all its linter results passed
\* and its scan report is absent or has no finding; run() goes on after
\* exactly the iterations that are not, and sets final_passed for the one
\* that is.
C27_PassedIffLintersAndScan ==
    \A n \in DOMAIN loop.iterations :
        LET it == loop.iterations[n]
        IN  /\ Passed(it) <=> (AllLintersPassed(it) /\ NoFindings(it))
            /\ n < Len(loop.iterations) => ~(AllLintersPassed(it) /\ NoFindings(it))
            /\ (AllLintersPassed(it) /\ NoFindings(it)) => loop.final_passed

\* The second iteration passed with an empty report after a first one whose
\* linters passed and whose report had findings.
C27_Witness ==
    /\ loop.pc = "done"
    /\ Len(loop.iterations) = 2
    /\ AllLintersPassed(loop.iterations[1])
    /\ loop.iterations[1].sonar_report # None
    /\ ~NoFindings(loop.iterations[1])
    /\ loop.iterations[2].sonar_report # None
    /\ NoFindings(loop.iterations[2])
    /\ AllLintersPassed(loop.iterations[2])
    /\ loop.final_passed

\* An iteration without a scan report passed.
C27_WitnessNoReport ==
    /\ loop.pc = "done"
    /\ loop.iterations # << >>
    /\ loop.iterations[Len(loop.iterations)].sonar_report = None
    /\ AllLintersPassed(loop.iterations[Len(loop.iterations)])
    /\ loop.final_passed

\* C28: when run() has returned with final_passed set, the last iteration
\* recorded no error and has a scan report without findings.
C28_PassMeansCleanScan ==
    (loop.pc = "done" /\ loop.final_passed) =>
        LET it == loop.iterations[Len(loop.iterations)]
        IN  /\ it.error = None
            /\ it.sonar_report # None
            /\ Len(it.sonar_report[1].issues) = 0

\* ------------------------------------------------------ claims: retries

\* The k-th request of call c failed and the call went on: it is asleep for
\* the delay 2^(k-1) + 0.5 s after that failure, or it slept that delay and
\* sent another request.
FollowedByRetry(c, k) ==
    \/ /\ k = Len(c.trace)
       /\ c.pc = "sleep"
       /\ c.wait_time = 2 * (2 ^ (k - 1)) + 1
       /\ Len(c.sleeps) = k - 1
    \/ /\ c.sent >= k + 1
       /\ Len(c.sleeps) >= k
       /\ c.sleeps[k] = 2 * (2 ^ (k - 1)) + 1

\* The failure of the k-th request of call c is what the call ended in.
Surfaced(c, k) ==
    /\ k = Len(c.trace)
    /\ c.pc \in { "done", "raised" }

\* C29: a request that ended in HTTP 429, a connection failure or a read
\* timeout while fewer than max_retries retries had been used is followed by
\* the backoff delay and another request; such a failure ends the call only
\* as the failure of request number max_retries + 1; and a call asleep for
\* a backoff can always go on to its next request.
C29_TransientIsRetried ==
    \A i \in Indices :
        LET c == clients[i]
        IN  /\ \A k \in DOMAIN c.trace :
                   Transient(c.trace[k]) =>
                       /\ k <= c.max_retries => FollowedByRetry(c, k)
                       /\ Surfaced(c, k) => k = c.max_retries + 1
            /\ c.pc = "sleep" => ENABLED Wake(i)

\* A 429 and then a connection failure or a read timeout were each followed
\* by their delay, and the third request is in flight.
C29_Witness ==
    \E i \in Indices :
        /\ clients[i].max_retries = 2
        /\ Len(clients[i].trace) = 2
        /\ clients[i].trace[1] = HttpResponse(429, None)
        /\ clients[i].trace[2].cls \in { "ConnectError", "ReadTimeout" }
        /\ clients[i].sleeps = << 3, 5 >>
        /\ clients[i].sent = 3
        /\ clients[i].pc = "request"

\* The timeout of the client expired during the request: while connecting
\* or while reading.
TimedOut(o) == o.cls \in { "ConnectTimeout", "ReadTimeout" }

\* C30: a request during which the client's timeout expired while fewer
\* than max_retries retries had been used is followed by the backoff delay
\* and another request, and such an expiry ends the call only as the
\* failure of request number max_retries + 1.
C30_TimeoutIsRetried ==
    \A i \in Indices :
        LET c == clients[i]
        IN  \A k \in DOMAIN c.trace :
                TimedOut(c.trace[k]) =>
                    /\ k <= c.max_retries => FollowedByRetry(c, k)
                    /\ Surfaced(c, k) => k = c.max_retries + 1

\* C30 for the read timeout alone.
ReadTimeoutIsRetried ==
    \A i \in Indices :
        LET c == clients[i]
        IN  \A k \in DOMAIN c.trace :
                c.trace[k].cls = "ReadTimeout" =>
                    /\ k <= c.max_retries => FollowedByRetry(c, k)
                    /\ Surfaced(c, k) => k = c.max_retries + 1

\* ------------------------------------------- claims: the end of a fetch

\* C31: every call of get_issues ends, whatever the server answers: it
\* returns a report or an error leaves it.
C31_FetchTerminates == <>(sonar.pc \in { "returned", "raised" })

\* ------------------------------------------- claims: the order of a scan

\* The place of a position of scan_and_wait in its order.
StageOf(pc) ==
    CASE pc = "scanner" -> 1
      [] pc \in { "poll", "sleep" } -> 2
      [] pc = "issues" -> 3
      [] OTHER -> 4

\* The scanner process ended with exit code 0 and a task id was read.
Submitted ==
    /\ sonar.process # None
    /\ sonar.process[1].started
    /\ sonar.process[1].returncode = 0
    /\ sonar.task_id # None

\* The last status check was answered SUCCESS.
PolledSuccess ==
    /\ sonar.statuses # << >>
    /\ Last(sonar.statuses).ok
    /\ Last(sonar.statuses).status = SUCCESS

\* C32: scan_and_wait submits, then polls, then fetches, in that order: a
\* status check is sent only once the scanner gave a task id, a page of
\* issues is requested only once a status check reported SUCCESS, the
\* position never goes back to an earlier stage, and a run that the scanner
\* or the polling ended with an error has no report.
C32_SubmitPollFetch ==
    /\ [](/\ sonar.checks > 0 => Submitted
          /\ sonar.requests # << >> => Submitted /\ PolledSuccess
          /\ sonar.result # None => sonar.pc = "returned" /\ PolledSuccess
          /\ sonar.pc = "raised" /\ sonar.requests = << >> => sonar.result = None)
    /\ [][StageOf(sonar'.pc) >= StageOf(sonar.pc)]_vars

\* C32 witness: the scanner gave a task id, the second status check reported
\* SUCCESS and the report was returned.
C32_Witness ==
    /\ Submitted /\ PolledSuccess
    /\ Len(sonar.statuses) = 2
    /\ sonar.pc = "returned" /\ sonar.result # None

\* C32 witness of a failed poll: FAILED ends the run without a request of
\* issues and without a report.
C32_WitnessPollFailed ==
    /\ Submitted
    /\ sonar.pc = "raised"
    /\ sonar.statuses # << >> /\ Last(sonar.statuses).ok
    /\ Last(sonar.statuses).status = FAILED
    /\ sonar.requests = << >> /\ sonar.result = None

\* --------------------------------------- claims: one thing at a time

\* run() awaits a linter, the scan or the answer to a fix request.
Awaiting == loop.pc \in { "linter", "scan", "fix" }

\* C33: the loop does one thing at a time.  While iteration i awaits
\* anything, iterations 1..i-1 and no others are in the result; a linter is
\* awaited only when every linter before it has its result; the scan is
\* awaited only when every linter has its result, and before any fix request
\* of the iteration; a fix request is awaited only after the scan gave its
\* report, it is the only request sent for the files handled so far, and
\* the step that receives its answer writes only that file and its backup.
C33_StrictlySequential ==
    /\ [](Awaiting =>
            /\ loop.i \in 1..loop.max_iterations
            /\ Len(loop.iterations) = loop.i - 1
            /\ loop.result.iteration = loop.i
            /\ loop.pc = "linter" =>
                   /\ Len(loop.results) = loop.linter_k - 1
                   /\ loop.result.sonar_report = None
                   /\ loop.result.requests = 0
            /\ loop.pc = "scan" =>
                   /\ Len(loop.results) = Len(LinterCommands)
                   /\ loop.result.linter_results = loop.results
                   /\ loop.result.sonar_report = None
                   /\ loop.result.requests = 0
            /\ loop.pc = "fix" =>
                   /\ Len(loop.result.linter_results) = Len(LinterCommands)
                   /\ loop.result.sonar_report # None
                   /\ loop.todo # << >>
                   /\ loop.result.requests
                          <= Cardinality(FilesWithIssues(
                                 loop.result.linter_results,
                                 loop.result.sonar_report))
                             - Len(loop.todo) + 1)
    /\ [][disk' # disk \/ loop'.writes # << >> =>
              /\ loop.pc = "fix"
              /\ \A k \in DOMAIN loop'.writes :
                     loop'.writes[k].path
                         \in { Head(loop.todo), BackupPath(Head(loop.todo)) }
              /\ \A path \in DOMAIN disk' :
                     path \notin { Head(loop.todo), BackupPath(Head(loop.todo)) }
                         => path \in DOMAIN disk /\ disk'[path] = disk[path]]_vars

\* C33 witness: in the second iteration the request for the last file to fix
\* is awaited, after a linter process ran and the scan reported.
C33_Witness ==
    /\ loop.pc = "fix"
    /\ loop.i = 2 /\ Len(loop.iterations) = 1
    /\ loop.result.requests = 1
    /\ Len(loop.todo) = 1
    /\ \E k \in DOMAIN loop.result.linter_results :
           loop.result.linter_results[k].process # None

\* ------------------------------------- claims: the list of iterations

\* C34: in the result run() returns the iterations are numbered 1..n in the
\* order of the list, and every iteration but the last one neither passed
\* nor recorded an error.
C34_OnlyLastPassedOrFailed ==
    loop.pc = "done" =>
        /\ \A k \in DOMAIN loop.iterations : loop.iterations[k].iteration = k
        /\ \A k \in 1..(Len(loop.iterations) - 1) :
               /\ ~Passed(loop.iterations[k])
               /\ loop.iterations[k].error = None

\* --------------------------------------- claims: the block of a response

\* The lines of a text between its first fence line and the next fence line,
\* or the end of the text when no fence line follows.
BlockLines(text) ==
    LET lines == Lines(text)
        open == FenceFrom(lines, 1)
        close == FenceFrom(lines, open + 1)
        last == IF close = 0 THEN Len(lines) ELSE close - 1
    IN  SubSeq(lines, open + 1, last)

\* The lines a returned value consists of: None has none.
ReturnedLines(fixed_content) ==
    IF fixed_content = None THEN << >> ELSE Lines(fixed_content[1])

\* C35: _extract_code_from_response returns the lines between the first
\* line that begins with a fence and the next such line, unchanged and in
\* order, whatever follows that line; for a response without a line that
\* begins with a fence it returns None.
C35_FirstBlockVerbatim ==
    loop.pc = "extracted" =>
        IF FenceFrom(Lines(loop.response), 1) = 0
        THEN loop.fixed_content = None
        ELSE /\ ReturnedLines(loop.fixed_content) = BlockLines(loop.response)
             /\ loop.fixed_content # None =>
                    loop.fixed_content[1] = JoinLines(BlockLines(loop.response))

\* C35 witness: a block of one line followed by a second block: the line of
\* the first block is returned.
C35_Witness ==
    /\ loop.pc = "extracted"
    /\ Lines(loop.response) = << Fence \o << "p", "y" >>, << "a" >>, Fence, Fence >>
    /\ loop.fixed_content = Some(<< "a" >>)

\* C35 witness without a block: the only fence stands after a blank.
C35_WitnessNoBlock ==
    /\ loop.pc = "extracted"
    /\ Lines(loop.response) = << << "a" >>, << " " >> \o Fence, << "b" >> >>
    /\ loop.fixed_content = None

\* ------------------------------------------- claims: fixes_applied

\* A fix has overwritten a file since run() was called: every overwrite
\* writes the backup of the file first, and the project had no backup.
SomeFileOverwritten == \E path \in DOMAIN disk : BackupPath(path) \in DOMAIN disk

\* C36: the fixes_applied flag of an iteration is true only if a fix
\* overwrote at least one file while that iteration ran; so while no file
\* was overwritten since run() was called, no iteration has the flag set.
C36_FixesAppliedMeansOverwritten ==
    \A k \in DOMAIN loop.iterations :
        loop.iterations[k].fixes_applied => SomeFileOverwritten

\* ------------------------------------------- claims: the backup

\* What the project's files held before run() was called: src/a.py is the
\* file the model rewrites.
PreLoopContent == ContentA

\* C37: whatever the loop has done, the backup of a file it has overwritten
\* holds what the file held before the loop first overwrote it.
C37_BackupHoldsPreLoopContent ==
    BackupPath(PathA) \in DOMAIN disk => disk[BackupPath(PathA)] = PreLoopContent

\* ------------------------------------------- claims: one pool

\* The pools of an instance that are open.
OpenPools(p) == { k \in DOMAIN p.pools : p.pools[k] = "open" }

\* The step is a complete() call that fetched its pool.
CompleteEntered == clients'[1].started = clients[1].started + 1

\* The step is a close() call that was entered.
CloseEntered == clients'[1].closes = clients[1].closes + 1

\* C38: a provider instance has at most one open pool at any time, whichever
\* way its owner interleaves complete() and close().
C38_AtMostOneOpenPool ==
    council_pc = "pool" => Cardinality(OpenPools(clients[1])) <= 1

\* What holds of the pool: as long as no
\* complete() call was entered while a close() awaited aclose(), the only
\* pool that can be open is the one self._client names; a complete() call
\* creates a pool exactly when none is open, which then is a new one, and
\* otherwise works on the open one; a close() entered without an open pool
\* changes nothing.
OnePoolWhileCloseIsNotRaced ==
    /\ [](council_pc = "pool" /\ ~clients[1].raced =>
            /\ Cardinality(OpenPools(clients[1])) <= 1
            /\ \A k \in OpenPools(clients[1]) : clients[1].client = Some(k))
    /\ [][council_pc = "pool" /\ ~clients'[1].raced /\ CompleteEntered =>
             LET p == clients[1]
                 q == clients'[1]
             IN  IF OpenPools(p) = {}
                 THEN /\ q.pools = Append(p.pools, "open")
                      /\ q.client = Some(Len(q.pools))
                      /\ Last(q.inflight) = Len(q.pools)
                 ELSE /\ q.pools = p.pools
                      /\ q.client = p.client
                      /\ Last(q.inflight) \in OpenPools(p)]_vars
    /\ [][council_pc = "pool" /\ CloseEntered /\ OpenPools(clients[1]) = {}
             /\ ~clients[1].raced =>
             /\ clients'[1].pools = clients[1].pools
             /\ clients'[1].client = clients[1].client
             /\ clients'[1].closer = clients[1].closer]_vars

\* Two calls in flight on the first pool were followed by a close() that
\* returned and by a call that works on a second pool, the only one open.
PoolReusedThenReplaced ==
    /\ council_pc = "pool"
    /\ ~clients[1].raced
    /\ clients[1].pools = << "closed", "open" >>
    /\ clients[1].inflight = << 1, 1, 2 >>
    /\ clients[1].closer = "idle"
    /\ clients[1].client = Some(2)

\* A close() that had nothing to close.
NothingToClose ==
    /\ council_pc = "pool"
    /\ clients[1].closes = 1
    /\ clients[1].pools = << >>
    /\ clients[1].client = None

\* ------------------------------------------- claims: closing the pools

EmptyContent(kind, o) == NoUsableText(kind, o) /\ o.body # None

\* C40: a request answered 2xx without content is the last one of its call,
\* whatever is left of the retry budget: the call has ended with the
\* empty-response failure, no delay was slept after that request and no
\* request was sent after it.
C40_EmptyResponseNotRetried ==
    \A i \in Indices :
        LET c == clients[i]
        IN  \A k \in DOMAIN c.trace :
                EmptyContent(c.kind, c.trace[k]) =>
                    /\ k = Len(c.trace)
                    /\ c.pc = "done"
                    /\ c.result = Some(EmptyResponse(c.kind))
                    /\ c.sent = k
                    /\ Len(c.sleeps) = k - 1
                    /\ ~ENABLED Wake(i)
                    /\ ~ENABLED Receive(i, TransportOutcomes)

\* C40 witness: with two retries allowed, the first request failed with 429
\* and the second was answered 200 without content: two requests, one delay,
\* and the call returned the failure with one retry unused.
C40_Witness ==
    \E i \in Indices :
        /\ clients[i].max_retries = 2
        /\ Len(clients[i].trace) = 2
        /\ clients[i].trace[1] = HttpResponse(429, None)
        /\ EmptyContent(clients[i].kind, clients[i].trace[2])
        /\ clients[i].pc = "done"
        /\ clients[i].sent = 2
        /\ clients[i].sleeps = << 3 >>
        /\ clients[i].result = Some(EmptyResponse(clients[i].kind))

====
